---- MODULE Spec2Model ----
(***************************************************************************)
(* Legacy-drive ledger: a model of legacy_drives.py (the unified pipeline) *)
(* and of the main() of legacy_drives_html_postseason.py.                  *)
(*                                                                         *)
(* A play-by-play table (DataFrame) is a set of play records; the row      *)
(* order of the provider's table is ascending (game_id, play_id).  Game    *)
(* ids are numbers whose order is the order of the real id strings         *)
(* ("2009_18_..." < "2011_03_...").  A missing number (NaN) is NA, a       *)
(* missing string (None/NaN) is NaS.  The columns that only feed the       *)
(* display text of a row (desc, down, ydstogo, time, home/away team) are   *)
(* left out; of the HTML rendering only its success or failure is kept.    *)
(***************************************************************************)
EXTENDS Integers, Sequences, FiniteSets, TLC

VARIABLES
    published,        \* game ids the play-by-play provider currently serves
    now,              \* the wall clock (datetime.now())
    cache_file,       \* legacy_drives_cache.json
    name_map_file,    \* qb_name_cache.json
    cache0,           \* history: the cache file before the first run
    last_run,         \* history: what the latest run of main() did
    merged_count,     \* history: per game, the number of runs that merged it
    post_cache_file,  \* legacy_drives_postseason_cache_website.json
    post_last_run,    \* history: the latest run of the postseason main()
    arg,              \* input of the function under check (function-level specs)
    ret               \* its result

vars == <<published, now, cache_file, name_map_file, cache0, last_run,
          merged_count, post_cache_file, post_last_run, arg, ret>>

-----------------------------------------------------------------------------
(* Bounds of the model *)

NumGames == 5        \* games of the catalogue the provider may serve
MaxNow == 2          \* the clock stops here
MaxMerges == 3       \* merges in the merge-protocol specification
MaxSeasonSpan == 27  \* how far below the current season an input season lies
MaxOtRank == 3       \* overtime drives of one game
MaxDrivePlays == 3   \* plays of the drive handed to get_qb_for_drive
MaxOpps == 3         \* Opportunities handed to build_leaderboard_records

(* Program constants *)

CURRENT_SEASON == 2025
DEFAULT_LAST_SEASON == 2000

NA == -9999           \* NaN / pd.NA in a numeric column
NaS == "nan"          \* None / NaN in a string column
NoKey == "<no key>"   \* a JSON object without that key
NonDict == [qb_id |-> "<not a dict>", result |-> "<not a dict>", season_type |-> "<not a dict>"]

isna(v) == v = NA

NumCols == {"game_id", "season", "week", "qtr", "drive", "play_id",
            "quarter_seconds_remaining", "game_seconds_remaining",
            "posteam_score", "defteam_score", "posteam_score_post",
            "defteam_score_post", "touchdown", "pass_attempt"}
StrCols == {"season_type", "posteam", "td_team", "field_goal_result",
            "qb_id", "qb", "passer_id", "passer"}
Columns == NumCols \cup StrCols

null(c) == IF c \in StrCols THEN NaS ELSE NA
notna(c, v) == v # null(c)

-----------------------------------------------------------------------------
(* Generic sequence helpers *)

RECURSIVE LexLess(_, _)
\* Lexicographic order on equally long tuples of numbers.
LexLess(a, b) ==
    IF a = <<>> THEN FALSE
    ELSE \/ Head(a) < Head(b)
         \/ Head(a) = Head(b) /\ LexLess(Tail(a), Tail(b))

\* body(x) for x the value of e (e is evaluated once).
Let(e, body(_)) == CHOOSE r \in {body(x) : x \in {e}} : TRUE

\* The elements of the finite set S as a sequence, ascending by the tuple
\* key[x]; the keys of distinct elements differ.
SortByKey(S, key) ==
    [i \in 1 .. Cardinality(S) |->
        CHOOSE x \in S : Cardinality({y \in S : LexLess(key[y], key[x])}) = i - 1]

Range(s) == {s[i] : i \in DOMAIN s}

IsPrefix(s, t) == Len(s) <= Len(t) /\ SubSeq(t, 1, Len(s)) = s

\* NaN sorts last in sort_values (na_position="last").
NaLast(v) == IF isna(v) THEN 1000000 ELSE v

-----------------------------------------------------------------------------
(* The play-by-play provider: a catalogue of games with their plays *)

GameIds == 1 .. NumGames

GameInfo(g) ==
    CASE g = 1 -> [game_id |-> 1, season |-> 2009, season_type |-> "POST", week |-> 18]
      [] g = 2 -> [game_id |-> 2, season |-> 2011, season_type |-> "REG", week |-> 3]
      [] g = 3 -> [game_id |-> 3, season |-> 2024, season_type |-> "REG", week |-> 10]
      [] g = 4 -> [game_id |-> 4, season |-> 2025, season_type |-> "REG", week |-> 1]
      [] g = 5 -> [game_id |-> 5, season |-> 2025, season_type |-> "POST", week |-> 19]
      [] OTHER -> [game_id |-> g, season |-> 2025, season_type |-> "REG", week |-> 2]

\* One play: the game's columns and the play's own, the rest missing.
Pl(g, qtr, drive, play_id, qsr, posteam, ps, ds, psp, dsp) ==
    GameInfo(g) @@
    [qtr |-> qtr, drive |-> drive, play_id |-> play_id,
     quarter_seconds_remaining |-> qsr, game_seconds_remaining |-> qsr,
     posteam |-> posteam, posteam_score |-> ps, defteam_score |-> ds,
     posteam_score_post |-> psp, defteam_score_post |-> dsp,
     touchdown |-> 0, td_team |-> NaS, field_goal_result |-> NaS,
     qb_id |-> NaS, qb |-> NaS, pass_attempt |-> 0, passer_id |-> NaS,
     passer |-> NaS]

Pass(p, id, name) == [p EXCEPT !.pass_attempt = 1, !.passer_id = id, !.passer = name]
Qb(p, id, name) == [p EXCEPT !.qb_id = id, !.qb = name]
Td(p) == [p EXCEPT !.touchdown = 1, !.td_team = p.posteam]
Fg(p, res) == [p EXCEPT !.field_goal_result = res]

PlaysOfGame(g) ==
    CASE g = 1 ->
           \* Q4: BUF trails 17-20 with 1:40 left and ties with a field goal;
           \* OT: KC gets the ball first and kicks a field goal.
           { Pass(Pl(1, 4, 20, 200, 100, "BUF", 17, 20, 17, 20), "00-002", "B.Baker"),
             Fg(Pl(1, 4, 20, 201, 5, "BUF", 17, 20, 20, 20), "made"),
             Pass(Pl(1, 5, 21, 300, 900, "KC", 20, 20, 20, 20), "00-001", "A.Able"),
             Fg(Pl(1, 5, 21, 301, 700, "KC", 20, 20, 23, 20), "made") }
      [] g = 2 ->
           \* Q4: KC trails 14-20 with 2:30 left and does not score.
           { Qb(Pass(Pl(2, 4, 18, 200, 150, "KC", 14, 20, 14, 20), "00-001", "A.Able"),
                "00-001", "A.Able"),
             Pl(2, 4, 18, 201, 90, "KC", 14, 20, 14, 20),
             Pass(Pl(2, 4, 18, 202, 40, "KC", 14, 20, NA, NA), "00-003", "C.Cole") }
      [] g = 3 ->
           \* Q4: DAL trails by 8 with 2:50 left, scores and converts (tied);
           \* then NYG trails by 3 with 0:20 left and fails (a late loss).
           { Pl(3, 4, 15, 200, 170, "DAL", 12, 20, 12, 20),
             Td(Pl(3, 4, 15, 201, 60, "DAL", 12, 20, 18, 20)),
             Pl(3, 4, 15, 202, 60, "DAL", 18, 20, 20, 20),
             Pass(Pl(3, 4, 16, 210, 20, "NYG", 17, 20, 17, 20), "00-003", "C.Cole"),
             Pl(3, 4, 16, 211, 0, "NYG", 17, 20, 17, 20) }
      [] g = 4 ->
           \* OT: KC kicks a field goal on the first drive, BUF answers with a
           \* touchdown on the second.
           { Pass(Pl(4, 5, 30, 400, 600, "KC", 24, 24, 24, 24), "00-001", "A.Able Sr"),
             Fg(Pl(4, 5, 30, 401, 400, "KC", 24, 24, 27, 24), "made"),
             Pass(Pl(4, 5, 31, 410, 390, "BUF", 24, 27, 24, 27), "00-002", "B.Baker"),
             Td(Pass(Pl(4, 5, 31, 411, 200, "BUF", 24, 27, 30, 27), "00-002", "B.Baker")) }
      [] g = 5 ->
           \* OT: a drive whose rows carry no score at all (score_diff is NaN).
           { Pass(Pl(5, 5, 25, 500, 600, "DAL", NA, NA, 10, 10), "00-003", "C.Cole"),
             Pl(5, 5, 25, 501, 500, "DAL", NA, NA, 10, 10) }
      [] OTHER ->
           \* Q4: NYG trails by 1 with 3:00 left and takes the lead.
           { Pass(Pl(g, 4, 12, 200, 180, "NYG", 20, 21, 20, 21), "00-002", "B.Baker"),
             Fg(Pl(g, 4, 12, 201, 2, "NYG", 20, 21, 23, 21), "made") }

PlaysOf(games) == UNION {PlaysOfGame(g) : g \in games}

\* The order of the real id strings, used where pandas sorts ids.
PlayerIds == <<"00-001", "00-002", "00-003">>
IdRank(id) == CHOOSE i \in DOMAIN PlayerIds : PlayerIds[i] = id

-----------------------------------------------------------------------------
(* legacy_drives.py: the pure helpers *)

\* Variant: range(last, current) without the + 1.
seasons_to_load_exclusive(last_season_processed, current_season) ==
    IF last_season_processed < current_season - 1
    THEN [i \in 1 .. (current_season - last_season_processed) |->
              last_season_processed + i - 1]
    ELSE <<current_season>>

\* list(range(last_season_processed, current_season + 1)), or [current_season]
seasons_to_load(last_season_processed, current_season) ==
    IF last_season_processed < current_season - 1
    THEN [i \in 1 .. (current_season + 1 - last_season_processed) |->
              last_season_processed + i - 1]
    ELSE <<current_season>>

\* DataFrame.groupby(["game_id", "drive"]).first() after sorting by play_id:
\* one row per drive, each column the drive's first non-missing value.
build_drive_starts(pbp_period) ==
    LET rows == {p \in pbp_period : ~isna(p.drive)}
        keys == {<<p.game_id, p.drive>> : p \in rows}
        group(k) == {p \in rows : p.game_id = k[1] /\ p.drive = k[2]}
        first(G, c) ==
            LET S == {p \in G : notna(c, p[c])}
            IN  IF S = {} THEN null(c)
                ELSE (CHOOSE p \in S : \A q \in S : p.play_id <= q.play_id)[c]
    IN  {[c \in Columns |-> first(group(k), c)] : k \in keys}

\* dict.get(key): the value, or None (here NoKey) when the key is absent.
get(map, key) == IF key \in DOMAIN map THEN map[key] ELSE NoKey

\* Series.mode().iloc[0]: the most frequent value, the smallest one on a tie.
mode(drive_all, col) ==
    LET vals == {p[col] : p \in {q \in drive_all : q[col] # NaS}}
        n(v) == Cardinality({p \in drive_all : p[col] = v})
        top == {v \in vals : \A w \in vals : n(w) <= n(v)}
    IN  CHOOSE v \in top : \A w \in top : IdRank(v) <= IdRank(w)

\* Counter(...).most_common(1)[0][0]: the most frequent value, the one met
\* first (in row order) on a tie.
most_common(rows, col) ==
    LET vals == {p[col] : p \in {q \in rows : q[col] # NaS}}
        n(v) == Cardinality({p \in rows : p[col] = v})
        seen(v) == CHOOSE i \in {p.play_id : p \in {q \in rows : q[col] = v}} :
                       \A p \in {q \in rows : q[col] = v} : i <= p.play_id
        top == {v \in vals : \A w \in vals : n(w) <= n(v)}
    IN  CHOOSE v \in top : \A w \in top : seen(v) <= seen(w)

\* Variant: the passer of the pass attempts is preferred to the qb_id column.
get_qb_for_drive_passer_first(drive_all, drive_start_row, qb_name_map, passer_name_map) ==
    LET qb_series == {p \in drive_all : p.qb_id # NaS}
        drive_pass == {p \in drive_all : p.pass_attempt = 1}
        qb_counts == {p \in drive_pass : p.passer_id # NaS}
        found ==
            IF qb_counts # {}
            THEN LET id == most_common(drive_pass, "passer_id")
                 IN  <<id, get(passer_name_map, id)>>
            ELSE IF qb_series # {}
            THEN LET id == mode(drive_all, "qb_id")
                 IN  <<id, get(qb_name_map, id)>>
            ELSE LET id == "TEAM_" \o (IF drive_start_row.posteam = NoKey THEN "UNK"
                                       ELSE drive_start_row.posteam)
                 IN  <<id, id>>
    IN  <<found[1], IF found[2] # NoKey THEN found[2] ELSE found[1]>>

\* str() of a missing team is "nan" (or "None"); "UNK" stands in only for a
\* row without the posteam field.
get_qb_for_drive(drive_all, drive_start_row, qb_name_map, passer_name_map) ==
    LET qb_series == {p \in drive_all : p.qb_id # NaS}
        drive_pass == {p \in drive_all : p.pass_attempt = 1}
        qb_counts == {p \in drive_pass : p.passer_id # NaS}
        found ==
            IF qb_series # {}
            THEN LET id == mode(drive_all, "qb_id")
                 IN  <<id, get(qb_name_map, id)>>
            ELSE IF qb_counts # {}
            THEN LET id == most_common(drive_pass, "passer_id")
                 IN  <<id, get(passer_name_map, id)>>
            ELSE LET id == "TEAM_" \o (IF drive_start_row.posteam = NoKey THEN "UNK"
                                       ELSE drive_start_row.posteam)
                 IN  <<id, id>>
    IN  <<found[1], IF found[2] # NoKey THEN found[2] ELSE found[1]>>

postseason_week_label(season, week) ==
    IF isna(season) \/ isna(week) THEN NaS
    ELSE IF season <= 2020
    THEN CASE week = 18 -> "WC" [] week = 19 -> "DIV" [] week = 20 -> "CC"
           [] week = 21 -> "SB" [] OTHER -> NaS
    ELSE CASE week = 19 -> "WC" [] week = 20 -> "DIV" [] week = 21 -> "CC"
           [] week = 22 -> "SB" [] OTHER -> NaS

\* str.upper() on the season types that occur.
upper(st) ==
    CASE st = "reg" -> "REG" [] st = "post" -> "POST" [] OTHER -> st

\* Variant: the postseason cutoff is the regular season's.
classify_ot_result_one_cutoff(season_type, season_val, ot_rank, td_scored, fg_scored, end_team_score, end_opp_score) ==
    LET st == upper(season_type)
    IN  IF st = "POST" /\ ~isna(season_val) /\ season_val < 2012
        THEN IF td_scored \/ fg_scored
             THEN <<"W", "OT (POST pre-2010): FG/TD scored on drive (Success)">>
             ELSE <<"L", "OT (POST pre-2010): no FG/TD scored on drive (Failure)">>
        ELSE IF st = "REG" /\ ~isna(season_val) /\ season_val < 2012
        THEN IF td_scored \/ fg_scored
             THEN <<"W", "OT (REG pre-2012): FG/TD scored on drive (Success)">>
             ELSE <<"L", "OT (REG pre-2012): no FG/TD scored on drive (Failure)">>
        ELSE IF ot_rank = 1
        THEN IF td_scored
             THEN <<"W", "OT (1st drive): TD scored (Success)">>
             ELSE <<"L", "OT (1st drive): no TD (FG or no score) (Failure)">>
        ELSE IF end_team_score > end_opp_score
        THEN <<"W", "OT (drive " \o ToString(ot_rank) \o "): ended leading (Success)">>
        ELSE <<"L", "OT (drive " \o ToString(ot_rank) \o "): ended not leading (Failure)">>

\* Variant: a later overtime drive that ends tied counts as a success.
classify_ot_result_tie_wins(season_type, season_val, ot_rank, td_scored, fg_scored, end_team_score, end_opp_score) ==
    LET st == upper(season_type)
    IN  IF st = "POST" /\ ~isna(season_val) /\ season_val < 2010
        THEN IF td_scored \/ fg_scored
             THEN <<"W", "OT (POST pre-2010): FG/TD scored on drive (Success)">>
             ELSE <<"L", "OT (POST pre-2010): no FG/TD scored on drive (Failure)">>
        ELSE IF st = "REG" /\ ~isna(season_val) /\ season_val < 2012
        THEN IF td_scored \/ fg_scored
             THEN <<"W", "OT (REG pre-2012): FG/TD scored on drive (Success)">>
             ELSE <<"L", "OT (REG pre-2012): no FG/TD scored on drive (Failure)">>
        ELSE IF ot_rank = 1
        THEN IF td_scored
             THEN <<"W", "OT (1st drive): TD scored (Success)">>
             ELSE <<"L", "OT (1st drive): no TD (FG or no score) (Failure)">>
        ELSE IF end_team_score >= end_opp_score
        THEN <<"W", "OT (drive " \o ToString(ot_rank) \o "): ended leading (Success)">>
        ELSE <<"L", "OT (drive " \o ToString(ot_rank) \o "): ended not leading (Failure)">>

classify_ot_result(season_type, season_val, ot_rank, td_scored, fg_scored, end_team_score, end_opp_score) ==
    LET st == upper(season_type)
    IN  IF st = "POST" /\ ~isna(season_val) /\ season_val < 2010
        THEN IF td_scored \/ fg_scored
             THEN <<"W", "OT (POST pre-2010): FG/TD scored on drive (Success)">>
             ELSE <<"L", "OT (POST pre-2010): no FG/TD scored on drive (Failure)">>
        ELSE IF st = "REG" /\ ~isna(season_val) /\ season_val < 2012
        THEN IF td_scored \/ fg_scored
             THEN <<"W", "OT (REG pre-2012): FG/TD scored on drive (Success)">>
             ELSE <<"L", "OT (REG pre-2012): no FG/TD scored on drive (Failure)">>
        ELSE IF ot_rank = 1
        THEN IF td_scored
             THEN <<"W", "OT (1st drive): TD scored (Success)">>
             ELSE <<"L", "OT (1st drive): no TD (FG or no score) (Failure)">>
        ELSE IF end_team_score > end_opp_score
        THEN <<"W", "OT (drive " \o ToString(ot_rank) \o "): ended leading (Success)">>
        ELSE <<"L", "OT (drive " \o ToString(ot_rank) \o "): ended not leading (Failure)">>

\* legacy_drives_html_postseason.py, process_new_games: the OT rule written
\* out in the loop.
postseason_ot_rule(season_val, ot_rank, td_scored, fg_scored, end_team_score, end_opp_score) ==
    IF ~isna(season_val) /\ season_val < 2010
    THEN IF td_scored \/ fg_scored
         THEN <<"W", "OT (pre-2010): FG/TD scored on drive (Success)">>
         ELSE <<"L", "OT (pre-2010): no FG/TD scored on drive (Failure)">>
    ELSE IF ot_rank = 1
    THEN IF td_scored
         THEN <<"W", "OT (1st drive): TD scored (Success)">>
         ELSE <<"L", "OT (1st drive): no TD (FG or no score) (Failure)">>
    ELSE IF end_team_score > end_opp_score
    THEN <<"W", "OT (drive " \o ToString(ot_rank) \o "): ended leading (Success)">>
    ELSE <<"L", "OT (drive " \o ToString(ot_rank) \o "): ended not leading (Failure)">>

\* legacy_drives_html_regular.py: the OT rule written out in the loop over
\* the candidates.
regular_ot_rule(season_val, ot_rank, td_scored, fg_scored, end_team_score, end_opp_score) ==
    IF ~isna(season_val) /\ season_val < 2012
    THEN IF td_scored \/ fg_scored
         THEN <<"W", "OT (pre-2012): FG/TD scored on drive (Success)">>
         ELSE <<"L", "OT (pre-2012): no FG/TD scored on drive (Failure)">>
    ELSE IF ot_rank = 1
    THEN IF td_scored
         THEN <<"W", "OT (1st drive): TD scored (Success)">>
         ELSE <<"L", "OT (1st drive): no TD (FG or no score) (Failure)">>
    ELSE IF end_team_score > end_opp_score
    THEN <<"W", "OT (drive " \o ToString(ot_rank) \o "): ended leading (Success)">>
    ELSE <<"L", "OT (drive " \o ToString(ot_rank) \o "): ended not leading (Failure)">>

-----------------------------------------------------------------------------
(* legacy_drives.py: process_new_games *)

score_diff(row) ==
    IF isna(row.posteam_score) \/ isna(row.defteam_score) THEN NA
    ELSE row.posteam_score - row.defteam_score

\* Variant: the time window is open at 180 seconds.
in_q4_window_open(r) ==
    /\ ~isna(r.quarter_seconds_remaining)
    /\ r.quarter_seconds_remaining < 180
    /\ r.quarter_seconds_remaining >= 0
    /\ ~isna(score_diff(r))
    /\ score_diff(r) >= -8 /\ score_diff(r) <= -1

\* The mask of the Q4 filter (a comparison with NaN is false).
in_q4_window(r) ==
    /\ ~isna(r.quarter_seconds_remaining)
    /\ r.quarter_seconds_remaining <= 180
    /\ r.quarter_seconds_remaining >= 0
    /\ ~isna(score_diff(r))
    /\ score_diff(r) >= -8 /\ score_diff(r) <= -1

\* The Q4 candidates: drive-start rows of quarter 4 inside the time and score
\* window, in (game_id, drive) order.
q4_opps(pbp) ==
    Let({r @@ [score_diff |-> score_diff(r), period |-> "Q4", ot_drive_rank |-> NA] :
           r \in {r \in build_drive_starts({p \in pbp : p.qtr = 4}) : in_q4_window(r)}},
        LAMBDA cand : SortByKey(cand, [r \in cand |-> <<r.game_id, r.drive>>]))

\* Variant: the OT drive-start rows are numbered through, over all games.
ot_opps_ranked_across_games(pbp) ==
    Let(build_drive_starts({p \in pbp : ~isna(p.qtr) /\ p.qtr >= 5}),
        LAMBDA drive_starts_ot :
          LET before(a, b) == LexLess(<<a.game_id, NaLast(a.qtr), NaLast(a.play_id)>>,
                                      <<b.game_id, NaLast(b.qtr), NaLast(b.play_id)>>)
              rank(r) == 1 + Cardinality({q \in drive_starts_ot : before(q, r)})
          IN  Let({r @@ [score_diff |-> score_diff(r), period |-> "OT",
                         ot_drive_rank |-> rank(r)] : r \in drive_starts_ot},
                  LAMBDA cand :
                    SortByKey(cand, [r \in cand |->
                                 <<r.game_id, NaLast(r.qtr), NaLast(r.play_id)>>])))

\* The OT candidates: every drive-start row of a quarter >= 5, ranked within
\* its game in (qtr, play_id) order.
ot_opps(pbp) ==
    Let(build_drive_starts({p \in pbp : ~isna(p.qtr) /\ p.qtr >= 5}),
        LAMBDA drive_starts_ot :
          LET before(a, b) == LexLess(<<NaLast(a.qtr), NaLast(a.play_id)>>,
                                      <<NaLast(b.qtr), NaLast(b.play_id)>>)
              rank(r) == 1 + Cardinality({q \in drive_starts_ot :
                                             q.game_id = r.game_id /\ before(q, r)})
          IN  Let({r @@ [score_diff |-> score_diff(r), period |-> "OT",
                         ot_drive_rank |-> rank(r)] : r \in drive_starts_ot},
                  LAMBDA cand :
                    SortByKey(cand, [r \in cand |->
                                 <<r.game_id, NaLast(r.qtr), NaLast(r.play_id)>>])))

\* drive_all.sort_values([game_seconds_remaining, play_id], ascending=[True,
\* False]): the chronologically last play comes first.
sort_drive(drive_all) ==
    SortByKey(drive_all, [p \in drive_all |->
                             <<NaLast(p.game_seconds_remaining), 0 - p.play_id>>])

\* Series.ffill().bfill() on column col of the sorted drive.
ffill_bfill(rows, col) ==
    LET valid(i) == ~isna(rows[i][col])
        up(i) == {j \in 1 .. i : valid(j)}
        down(i) == {j \in i .. Len(rows) : valid(j)}
        max(S) == CHOOSE j \in S : \A k \in S : k <= j
        min(S) == CHOOSE j \in S : \A k \in S : j <= k
        fill(i) == IF up(i) # {} THEN rows[max(up(i))][col]
                   ELSE IF down(i) # {} THEN rows[min(down(i))][col]
                   ELSE NA
    IN  [i \in DOMAIN rows |-> [rows[i] EXCEPT ![col] = fill(i)]]

has_both_scores(p) == ~isna(p.posteam_score_post) /\ ~isna(p.defteam_score_post)

\* The drive's plays as the loop reads them: sorted, both post-play score
\* columns filled.
filled_drive(group) ==
    Let(sort_drive(group), LAMBDA sorted :
      Let(ffill_bfill(sorted, "posteam_score_post"), LAMBDA half :
        ffill_bfill(half, "defteam_score_post")))

\* Variant: a tie at the end of the drive counts as a failure.
q4_result_strict(end_team_score, end_opp_score) ==
    IF end_team_score > end_opp_score
    THEN <<"W", "Q4: drive ended tied or leading (Success)">>
    ELSE <<"L", "Q4: drive ended still trailing (Failure)">>

q4_result(end_team_score, end_opp_score) ==
    IF end_team_score >= end_opp_score
    THEN <<"W", "Q4: drive ended tied or leading (Success)">>
    ELSE <<"L", "Q4: drive ended still trailing (Failure)">>

\* Variant: any touchdown on the drive counts, whoever scored it.
td_scored_by_anyone(drive_all, start_posteam) ==
    \E i \in DOMAIN drive_all : drive_all[i].touchdown = 1

\* ((touchdown == 1) & (td_team == start_posteam)).any(); a comparison with a
\* missing team is false.
td_scored(drive_all, start_posteam) ==
    \E i \in DOMAIN drive_all :
        /\ drive_all[i].touchdown = 1
        /\ start_posteam # NaS
        /\ drive_all[i].td_team = start_posteam

\* ((field_goal_result == "made") & (posteam == start_posteam)).any()
fg_scored(drive_all, start_posteam) ==
    \E i \in DOMAIN drive_all :
        /\ drive_all[i].field_goal_result = "made"
        /\ start_posteam # NaS
        /\ drive_all[i].posteam = start_posteam

\* The outcome of a candidate whose end scores are known.
outcome_of(row, drive_all, season_type, end_team_score, end_opp_score) ==
    IF row.period = "Q4"
    THEN q4_result(end_team_score, end_opp_score)
    ELSE classify_ot_result(season_type, row.season, row.ot_drive_rank,
                            td_scored(drive_all, row.posteam),
                            fg_scored(drive_all, row.posteam),
                            end_team_score, end_opp_score)

\* Variant: the late-loss rule is applied whatever the period.
late_loss_any_period(row, result) ==
    /\ ~isna(row.quarter_seconds_remaining)
    /\ row.quarter_seconds_remaining <= 30
    /\ result = "L"

\* The legacy rule: a Q4 candidate that starts with <= 0:30 left and fails.
late_loss(row, result) ==
    /\ row.period = "Q4"
    /\ ~isna(row.quarter_seconds_remaining)
    /\ row.quarter_seconds_remaining <= 30
    /\ result = "L"

legacydrive_row(row, season_type, qb_name, end_team_score, end_opp_score, outcome) ==
    [season_type |-> season_type, qb_name |-> qb_name,
     season |-> row.season, week |-> row.week,
     week_label |-> IF season_type = "POST"
                    THEN postseason_week_label(row.season, row.week) ELSE NaS,
     game_id |-> row.game_id, period |-> row.period,
     start_score_diff |-> IF row.score_diff < 0 THEN 0 - row.score_diff
                          ELSE row.score_diff,
     end_team_score |-> end_team_score, end_opp_score |-> end_opp_score,
     result |-> outcome[1], reason |-> outcome[2]]

\* One iteration of the loop over the candidates: "skip" (continue), "raise"
\* (an exception leaves the loop and the function: int() of a NaN score_diff,
\* after the Opportunity was appended) or "emit".
process_candidate(row, pbp, passer_name_map, qb_name_map) ==
    LET none == [kind |-> "skip", opp |-> NonDict, row |-> NonDict]
        season_type == upper(row.season_type)
    IN  Let({p \in pbp : /\ p.game_id = row.game_id /\ p.drive = row.drive
                         /\ IF row.period = "Q4" THEN p.qtr = 4
                            ELSE ~isna(p.qtr) /\ p.qtr >= 5},
        LAMBDA group :
          IF group = {} THEN none
          ELSE
          Let(filled_drive(group), LAMBDA drive_all :
          Let(SelectSeq(drive_all, has_both_scores), LAMBDA candidates :
            IF ~has_both_scores(drive_all[1]) /\ candidates = <<>> THEN none
            ELSE
            Let(IF has_both_scores(drive_all[1]) THEN drive_all[1] ELSE candidates[1],
            LAMBDA last_play :
            Let(outcome_of(row, drive_all, season_type, last_play.posteam_score_post,
                           last_play.defteam_score_post),
            LAMBDA outcome :
            Let(get_qb_for_drive(group, row, qb_name_map, passer_name_map),
            LAMBDA qb :
              LET opp == [qb_id |-> qb[1], result |-> outcome[1],
                          season_type |-> season_type]
              IN  IF late_loss(row, outcome[1])
                  THEN none
                  ELSE IF isna(row.score_diff)
                  THEN [kind |-> "raise", opp |-> opp, row |-> NonDict]
                  ELSE [kind |-> "emit", opp |-> opp,
                        row |-> legacydrive_row(row, season_type, qb[2],
                                                last_play.posteam_score_post,
                                                last_play.defteam_score_post,
                                                outcome)]))))))

RECURSIVE process_opps_swallowing(_, _, _, _, _, _)
\* Variant: the exception of an iteration is caught and the loop goes on.
process_opps_swallowing(opps, i, pbp, lists, passer_name_map, qb_name_map) ==
    IF i > Len(opps) THEN lists
    ELSE Let(process_candidate(opps[i], pbp, passer_name_map, qb_name_map), LAMBDA c :
           CASE c.kind = "skip" ->
                  process_opps_swallowing(opps, i + 1, pbp, lists, passer_name_map,
                                          qb_name_map)
             [] c.kind = "raise" ->
                  Let([lists EXCEPT !.opportunities = Append(@, c.opp)], LAMBDA more :
                    process_opps_swallowing(opps, i + 1, pbp, more, passer_name_map,
                                            qb_name_map))
             [] OTHER ->
                  Let([lists EXCEPT !.opportunities = Append(@, c.opp),
                                    !.legacydrive_rows = Append(@, c.row)],
                      LAMBDA more :
                        process_opps_swallowing(opps, i + 1, pbp, more,
                                                passer_name_map, qb_name_map)))

RECURSIVE process_opps(_, _, _, _, _, _)
\* The loop from candidate number i on; lists holds the two lists so far.
process_opps(opps, i, pbp, lists, passer_name_map, qb_name_map) ==
    IF i > Len(opps) THEN lists
    ELSE Let(process_candidate(opps[i], pbp, passer_name_map, qb_name_map), LAMBDA c :
           CASE c.kind = "skip" ->
                  process_opps(opps, i + 1, pbp, lists, passer_name_map, qb_name_map)
             [] c.kind = "raise" ->
                  [lists EXCEPT !.raised = TRUE,
                                !.opportunities = Append(@, c.opp)]
             [] OTHER ->
                  Let([lists EXCEPT !.opportunities = Append(@, c.opp),
                                    !.legacydrive_rows = Append(@, c.row)],
                      LAMBDA more :
                        process_opps(opps, i + 1, pbp, more, passer_name_map,
                                     qb_name_map)))

\* The body of process_new_games on the two lists, given as one record.
process_lists(pbp, new_games, lists, passer_name_map, qb_name_map) ==
    Let({p \in pbp : p.game_id \in new_games}, LAMBDA mine :
      IF new_games = {} \/ mine = {} THEN lists
      ELSE Let(q4_opps(mine) \o ot_opps(mine), LAMBDA opps :
             Let(passer_name_map, LAMBDA pmap :
               Let(qb_name_map, LAMBDA qmap :
                 process_opps(opps, 1, mine, lists, pmap, qmap)))))

\* Variant: games that already have a row in the ledger are left out.
process_new_games_guarded(pbp, new_games, opportunities, legacydrive_rows, passer_name_map, qb_name_map) ==
    Let([raised |-> FALSE, opportunities |-> opportunities,
         legacydrive_rows |-> legacydrive_rows], LAMBDA lists :
      process_lists(pbp,
                    {g \in new_games : \A i \in DOMAIN legacydrive_rows :
                                           legacydrive_rows[i].game_id # g},
                    lists, passer_name_map, qb_name_map))

\* Variant: the lists are rebuilt from the new games instead of appended to.
process_new_games_replacing(pbp, new_games, opportunities, legacydrive_rows, passer_name_map, qb_name_map) ==
    Let([raised |-> FALSE, opportunities |-> <<>>, legacydrive_rows |-> <<>>],
        LAMBDA lists :
          process_lists(pbp, new_games, lists, passer_name_map, qb_name_map))

\* process_new_games appends to the two lists in place; the result holds the
\* lists after the call and whether the call ended by an exception.
process_new_games(pbp, new_games, opportunities, legacydrive_rows, passer_name_map, qb_name_map) ==
    Let([raised |-> FALSE, opportunities |-> opportunities,
         legacydrive_rows |-> legacydrive_rows], LAMBDA lists :
      process_lists(pbp, new_games, lists, passer_name_map, qb_name_map))

-----------------------------------------------------------------------------
(* legacy_drives.py: the cache files *)

EmptyMap == [k \in {} |-> NaS]

\* No file on disk.  (The fields of an absent file are never read.)
AbsentCache ==
    [exists |-> FALSE, opportunities |-> <<>>, processed_games |-> {},
     last_season_processed |-> 0, legacydrive_rows |-> <<>>, last_updated |-> 0]

\* Variant: the default season is the current one.
load_defaulting_to_current(file) ==
    IF ~file.exists
    THEN [opportunities |-> <<>>, processed_games |-> {},
          last_season_processed |-> CURRENT_SEASON, legacydrive_rows |-> <<>>]
    ELSE [opportunities |-> file.opportunities,
          processed_games |-> file.processed_games,
          last_season_processed |-> IF file.last_season_processed = 0
                                    THEN CURRENT_SEASON
                                    ELSE file.last_season_processed,
          legacydrive_rows |-> file.legacydrive_rows]

\* json.load(f) with the defaults of data.get(...) or ...: a missing, null or
\* zero last_season_processed (written 0 here) reads as 2000.
load_legacydrive_cache(file) ==
    IF ~file.exists
    THEN [opportunities |-> <<>>, processed_games |-> {},
          last_season_processed |-> DEFAULT_LAST_SEASON, legacydrive_rows |-> <<>>]
    ELSE [opportunities |-> file.opportunities,
          processed_games |-> file.processed_games,
          last_season_processed |-> IF file.last_season_processed = 0
                                    THEN DEFAULT_LAST_SEASON
                                    ELSE file.last_season_processed,
          legacydrive_rows |-> file.legacydrive_rows]

save_legacydrive_cache(opportunities, processed_games, last_season_processed, legacydrive_rows, time) ==
    [exists |-> TRUE, opportunities |-> opportunities,
     processed_games |-> processed_games,
     last_season_processed |-> last_season_processed,
     legacydrive_rows |-> legacydrive_rows, last_updated |-> time]

\* Entries that are no JSON object are dropped; an entry without a
\* season_type gets "REG".
_normalize_cached_opportunities(opps) ==
    Let(SelectSeq(opps, LAMBDA o : o # NonDict), LAMBDA out :
      [i \in DOMAIN out |->
          IF out[i].season_type = NoKey THEN [out[i] EXCEPT !.season_type = "REG"]
          ELSE out[i]])

-----------------------------------------------------------------------------
(* legacy_drives.py: build_leaderboard_records *)

\* The placeholder ids that occur.
Placeholders == {"TEAM_" \o t : t \in {"KC", "BUF", "DAL", "NYG", "UNK", "nan", "None"}}

\* Variant: the placeholders are not recognised.
startswith_nothing(id) == FALSE

\* str(id).startswith("TEAM_"), on the ids that occur.
startswith_TEAM(id) == id \in Placeholders

\* round(wins / decisions * 100, 1) in tenths of a percent: the nearest tenth,
\* the even one when both are equally near.
win_pct(wins, decisions) ==
    LET q == (1000 * wins) \div decisions
        r == (1000 * wins) % decisions
    IN  IF 2 * r < decisions THEN q
        ELSE IF 2 * r > decisions THEN q + 1
        ELSE IF q % 2 = 0 THEN q ELSE q + 1

\* The position of an id in the pivot's index, which is sorted by id: a letter
\* comes after the digits.
index_rank(id) == IF id \in Range(PlayerIds) THEN IdRank(id) ELSE Len(PlayerIds) + 1

\* Variant: the losses are sorted descending as well.
leaderboard_order_losses_descending(r) ==
    <<0 - r.wins, 0 - r.losses, 0 - r.win_pct, index_rank(r.qb_id)>>

\* sort_values(["wins", "losses", "win_pct"], ascending=[False, True, False]);
\* rows equal in all three keep the order of the index.
leaderboard_order(r) ==
    <<0 - r.wins, r.losses, 0 - r.win_pct, index_rank(r.qb_id)>>

\* The table as the sequence of its rows, the index (qb_id) as a field.
build_leaderboard_records(opportunities, name_map) ==
    IF opportunities = <<>> THEN <<>>
    ELSE
    LET size(id, result) ==
            Cardinality({i \in DOMAIN opportunities :
                            /\ opportunities[i].qb_id = id
                            /\ opportunities[i].result = result})
        index == {opportunities[i].qb_id : i \in DOMAIN opportunities}
        pivot == {[qb_id |-> id, wins |-> size(id, "W"), losses |-> size(id, "L")] :
                     id \in {id \in index : ~startswith_TEAM(id)}}
        records ==
            {[qb_id |-> r.qb_id,
              qb_name |-> IF r.qb_id \in DOMAIN name_map THEN name_map[r.qb_id] ELSE NaS,
              wins |-> r.wins, losses |-> r.losses,
              decisions |-> r.wins + r.losses,
              win_pct |-> IF r.wins + r.losses > 0
                          THEN win_pct(r.wins, r.wins + r.losses) ELSE 0] : r \in pivot}
        kept == {[qb_id |-> r.qb_id, qb_name |-> r.qb_name, wins |-> r.wins,
                  losses |-> r.losses, win_pct |-> r.win_pct] :
                    r \in {r \in records : r.decisions > 0}}
    IN  SortByKey(kept, [r \in kept |-> leaderboard_order(r)])

-----------------------------------------------------------------------------
(* legacy_drives.py: main *)

\* nfl.import_pbp_data(seasons): the plays of the served games of these seasons.
import_pbp_all(seasons) ==
    {p \in PlaysOf(published) : p.season \in Range(seasons)}

\* pbp_all.groupby(id_col)[name_col].first().to_dict()
name_map_of(pbp_all, id_col, name_col) ==
    LET ids == {p[id_col] : p \in pbp_all} \ {NaS}
        first(id) ==
            Let({p \in pbp_all : p[id_col] = id /\ p[name_col] # NaS}, LAMBDA S :
              IF S = {} THEN NaS
              ELSE (CHOOSE p \in S : \A q \in S \ {p} :
                        LexLess(<<p.game_id, p.play_id>>,
                                <<q.game_id, q.play_id>>))[name_col])
    IN  [id \in ids |-> first(id)]

\* Variant: the processed games are not taken out.
new_games_all(all_games, processed_games) == all_games

\* new_games = all_games - processed_games
new_games_of(all_games, processed_games) == all_games \ processed_games

\* Variant: the elif test is dropped.
advance_always_previous(seasons, last_season_processed) ==
    IF seasons[Len(seasons)] < CURRENT_SEASON THEN seasons[Len(seasons)]
    ELSE CURRENT_SEASON - 1

\* Variant: <= for < in the first test.
advance_to_current(seasons, last_season_processed) ==
    IF seasons[Len(seasons)] <= CURRENT_SEASON THEN seasons[Len(seasons)]
    ELSE IF Len(seasons) > 1 THEN CURRENT_SEASON - 1
    ELSE last_season_processed

\* The catch-up rule for last_season_processed after a merge.
advance_last_season(seasons, last_season_processed) ==
    IF seasons[Len(seasons)] < CURRENT_SEASON THEN seasons[Len(seasons)]
    ELSE IF Len(seasons) > 1 THEN CURRENT_SEASON - 1
    ELSE last_season_processed

\* processed_games.update(new_games)
update(processed_games, new_games) == processed_games \cup new_games

\* Variant: the merge and the save are not guarded.
has_new_rows_always(pbp_new) == TRUE

\* if not pbp_new.empty
has_new_rows(pbp_new) == pbp_new # {}

NoRun ==
    [ran |-> FALSE, called |-> FALSE, raised |-> FALSE, saved |-> FALSE,
     failed |-> "", all_games |-> {}, new_games |-> {}, processed_before |-> {},
     seasons |-> <<>>, before |-> AbsentCache, names_before |-> EmptyMap]

\* What the operating system may do to a write of this run.
Faults == {"none", "cache write", "name map write"}

\* The cache file after an interrupted write: open(..., "w") emptied it and
\* json.dump did not finish.
TornCache ==
    [exists |-> TRUE, opportunities |-> <<>>, processed_games |-> {},
     last_season_processed |-> 0, legacydrive_rows |-> <<>>, last_updated |-> 0 - 1]

\* _render_section: qb_name.replace(" ", "-") on each record; a null name has
\* no such method.
render_raises(records) == \E i \in DOMAIN records : records[i].qb_name = NaS

\* The rest of main after the merge: "" when the pages are written (or there
\* is nothing to show), "render" when building them raises.
render(opportunities, passer_name_map) ==
    IF opportunities = <<>> THEN ""
    ELSE Let(SelectSeq(opportunities, LAMBDA o : upper(o.season_type) = "REG"),
         LAMBDA opp_reg :
           Let(SelectSeq(opportunities, LAMBDA o : upper(o.season_type) = "POST"),
           LAMBDA opp_post :
             IF \/ render_raises(build_leaderboard_records(opp_reg, passer_name_map))
                \/ render_raises(build_leaderboard_records(opp_post, passer_name_map))
             THEN "render" ELSE ""))

\* One run of main(); fault says which write of the run, if any, fails.
main_under(fault) ==
    IF cache_file = TornCache
    THEN \* json.load raises on the torn file
         /\ last_run' = [NoRun EXCEPT !.ran = TRUE, !.failed = "load",
                                      !.before = cache_file,
                                      !.names_before = name_map_file]
         /\ UNCHANGED <<cache_file, name_map_file, merged_count>>
    ELSE
    \E loaded \in {load_legacydrive_cache(cache_file)} :
    \E cached_opportunities \in {_normalize_cached_opportunities(loaded.opportunities)} :
    \E seasons \in {seasons_to_load(loaded.last_season_processed, CURRENT_SEASON)} :
    \E pbp_all \in {import_pbp_all(seasons)} :
    \E new_games \in {new_games_of({p.game_id : p \in pbp_all}, loaded.processed_games)} :
    \E pbp_new \in {{p \in pbp_all : p.game_id \in new_games}} :
    \E passer_name_map \in {name_map_of(pbp_all, "passer_id", "passer") @@ name_map_file} :
    \E qb_name_map \in {name_map_of(pbp_all, "qb_id", "qb")} :
    \E run \in {[ran |-> TRUE, called |-> FALSE, raised |-> FALSE, saved |-> FALSE,
                 failed |-> "", all_games |-> {p.game_id : p \in pbp_all},
                 new_games |-> new_games, processed_before |-> loaded.processed_games,
                 seasons |-> seasons, before |-> cache_file,
                 names_before |-> name_map_file]} :
        IF pbp_all = {}
        THEN \* nothing fetched: main returns
             /\ last_run' = run
             /\ UNCHANGED <<cache_file, name_map_file, merged_count>>
        ELSE IF ~has_new_rows(pbp_new)
        THEN \* nothing new: the files stay as they are, the pages are rebuilt
             /\ last_run' = [run EXCEPT !.failed = render(cached_opportunities,
                                                          passer_name_map)]
             /\ UNCHANGED <<cache_file, name_map_file, merged_count>>
        ELSE \E done \in {process_new_games(pbp_new, new_games, cached_opportunities,
                                            loaded.legacydrive_rows, passer_name_map,
                                            qb_name_map)} :
             \E saved \in {save_legacydrive_cache(
                               done.opportunities,
                               update(loaded.processed_games, new_games),
                               advance_last_season(seasons, loaded.last_season_processed),
                               done.legacydrive_rows, now)} :
             \E merged \in {[g \in DOMAIN merged_count |->
                                merged_count[g] + IF g \in new_games THEN 1 ELSE 0]} :
             IF done.raised
             THEN \* the exception ends the run before anything is written
                  /\ last_run' = [run EXCEPT !.called = TRUE, !.raised = TRUE,
                                             !.failed = "process"]
                  /\ UNCHANGED <<cache_file, name_map_file, merged_count>>
             ELSE IF fault = "cache write"
             THEN \* save_legacydrive_cache raises while writing
                  /\ cache_file' = TornCache
                  /\ last_run' = [run EXCEPT !.called = TRUE, !.failed = "save cache"]
                  /\ UNCHANGED <<name_map_file, merged_count>>
             ELSE IF fault = "name map write"
             THEN \* save_persistent_name_map raises on open()
                  /\ cache_file' = saved
                  /\ merged_count' = merged
                  /\ last_run' = [run EXCEPT !.called = TRUE, !.saved = TRUE,
                                             !.failed = "save names"]
                  /\ UNCHANGED name_map_file
             ELSE /\ cache_file' = saved
                  /\ name_map_file' = passer_name_map
                  /\ merged_count' = merged
                  /\ last_run' = [run EXCEPT !.called = TRUE, !.saved = TRUE,
                                             !.failed = render(done.opportunities,
                                                               passer_name_map)]

\* A run in which every write succeeds.
main == main_under("none")

-----------------------------------------------------------------------------
(* The pipeline: the provider publishes games, time passes, main() runs *)

\* Caches a first run may find: none, an empty one of some season, the
\* cache of an earlier run over game 2 (written when 2011 or when 2025 was the
\* current season), the same written before season_type was stored (no such
\* key), and one with an entry that is not an object.
InitSeasons == {0, 2010, 2023, 2024, 2025, 2026}

EmptyCache(season) ==
    [exists |-> TRUE, opportunities |-> <<>>, processed_games |-> {},
     last_season_processed |-> season, legacydrive_rows |-> <<>>, last_updated |-> 0]

\* What one call of process_new_games yields for the games alone.
Alone(games) ==
    process_new_games(PlaysOf(games), games, <<>>, <<>>, EmptyMap, EmptyMap)

Game2Cache(season) ==
    Let(Alone({2}), LAMBDA done :
      [exists |-> TRUE, opportunities |-> done.opportunities, processed_games |-> {2},
       last_season_processed |-> season, legacydrive_rows |-> done.legacydrive_rows,
       last_updated |-> 0])

OldFormatCache ==
    [Game2Cache(2024) EXCEPT !.opportunities =
        [i \in DOMAIN @ |-> [@[i] EXCEPT !.season_type = NoKey]]]

BrokenEntryCache ==
    [Game2Cache(2024) EXCEPT !.opportunities = <<NonDict>> \o @]

InitCaches ==
    {AbsentCache, Game2Cache(2010), Game2Cache(2024), OldFormatCache, BrokenEntryCache}
    \cup {EmptyCache(y) : y \in InitSeasons}

\* The variables of the other specifications, at rest.
PostIdle == post_cache_file = AbsentCache /\ post_last_run = NoRun
FnIdle == arg = <<>> /\ ret = <<>>

Init ==
    /\ published = {}
    /\ now = 1
    /\ cache_file \in InitCaches
    /\ name_map_file = EmptyMap
    /\ cache0 = cache_file
    /\ last_run = NoRun
    /\ merged_count = [g \in GameIds |-> 0]
    /\ PostIdle
    /\ FnIdle

\* The provider starts serving one more game.
Publish(g) ==
    /\ g \notin published
    /\ published' = published \cup {g}
    /\ UNCHANGED <<now, cache_file, name_map_file, cache0, last_run, merged_count,
                   post_cache_file, post_last_run, arg, ret>>

Tick ==
    /\ now < MaxNow
    /\ now' = now + 1
    /\ UNCHANGED <<published, cache_file, name_map_file, cache0, last_run,
                   merged_count, post_cache_file, post_last_run, arg, ret>>

Run ==
    /\ main
    /\ UNCHANGED <<published, now, cache0, post_cache_file, post_last_run, arg, ret>>

Next ==
    \/ \E g \in GameIds : Publish(g)
    \/ Tick
    \/ Run

Spec == Init /\ [][Next]_vars

-----------------------------------------------------------------------------
(* The merge protocol on its own: process_new_games followed by            *)
(* processed_games.update, called with any set of game ids                 *)

AllPlays == PlaysOf(GameIds)

EmptyLedger ==
    [raised |-> FALSE, opportunities |-> <<>>, legacydrive_rows |-> <<>>,
     processed_games |-> {}]

\* main, lines 1020-1021, on the in-memory ledger; an exception of
\* process_new_games leaves before processed_games is updated.
merge(ledger, pbp, new_games) ==
    Let(process_new_games(pbp, new_games, ledger.opportunities,
                          ledger.legacydrive_rows,
                          name_map_of(pbp, "passer_id", "passer"),
                          name_map_of(pbp, "qb_id", "qb")),
        LAMBDA done :
          [raised |-> done.raised, opportunities |-> done.opportunities,
           legacydrive_rows |-> done.legacydrive_rows,
           processed_games |-> IF done.raised THEN ledger.processed_games
                               ELSE update(ledger.processed_games, new_games)])

\* The sets of game ids a caller merges: one game, or two neighbours.
MergeSets == {{g} : g \in GameIds} \cup {{g, g + 1} : g \in 1 .. NumGames - 1}

PipelineIdle ==
    /\ published = {} /\ now = 1
    /\ cache_file = AbsentCache /\ name_map_file = EmptyMap /\ cache0 = AbsentCache
    /\ last_run = NoRun /\ merged_count = [g \in GameIds |-> 0]

MergeInit ==
    /\ PipelineIdle /\ PostIdle
    /\ arg = [n |-> 0, new_games |-> {}, repeated |-> FALSE,
              before |-> EmptyLedger, before2 |-> EmptyLedger]
    /\ ret = EmptyLedger

Merge(new_games) ==
    /\ arg.n < MaxMerges
    /\ ret' = merge(ret, AllPlays, new_games)
    /\ arg' = [n |-> arg.n + 1, new_games |-> new_games,
               repeated |-> arg.n > 0 /\ new_games = arg.new_games,
               before |-> ret, before2 |-> arg.before]
    /\ UNCHANGED <<published, now, cache_file, name_map_file, cache0, last_run,
                   merged_count, post_cache_file, post_last_run>>

MergeNext == \E new_games \in MergeSets : Merge(new_games)

SpecMerge == MergeInit /\ [][MergeNext]_vars

-----------------------------------------------------------------------------
(* legacy_drives_html_postseason.py: main *)

post_seasons_to_load(last_season_processed, current_season) ==
    IF last_season_processed < current_season - 1
    THEN [i \in 1 .. (current_season + 1 - last_season_processed) |->
              last_season_processed + i - 1]
    ELSE <<current_season>>

\* The cache record keeps the rows under the one key "legacydrive_rows".
load_cache(file) == load_legacydrive_cache(file)

import_postseason_pbp(seasons) ==
    {p \in import_pbp_all(seasons) : p.season_type = "POST"}

\* The postseason loop appends records without a season_type; on a table of
\* POST rows alone its inline overtime rule is the POST branch of
\* classify_ot_result.
post_process_new_games(pbp, new_games, opportunities, legacydrive_rows, passer_name_map, qb_name_map) ==
    Let(process_new_games(pbp, new_games, <<>>, <<>>, passer_name_map, qb_name_map),
        LAMBDA done :
          [raised |-> done.raised,
           opportunities |-> opportunities \o
               [i \in DOMAIN done.opportunities |->
                   [done.opportunities[i] EXCEPT !.season_type = NoKey]],
           legacydrive_rows |-> legacydrive_rows \o
               [i \in DOMAIN done.legacydrive_rows |->
                   [done.legacydrive_rows[i] EXCEPT !.season_type = NoKey,
                                                    !.week_label = NoKey]]])

\* Everything after "pbp = pd.DataFrame()" is indented under the else of
\* "if new_games:", so it runs only when there are no new games.
post_main ==
    \E loaded \in {load_cache(post_cache_file)} :
    \E seasons \in {post_seasons_to_load(loaded.last_season_processed, CURRENT_SEASON)} :
    \E pbp_all \in {import_postseason_pbp(seasons)} :
    \E new_games \in {{p.game_id : p \in pbp_all} \ loaded.processed_games} :
    \E run \in {[ran |-> TRUE, called |-> FALSE, raised |-> FALSE, saved |-> FALSE,
                 failed |-> "", all_games |-> {p.game_id : p \in pbp_all},
                 new_games |-> new_games, processed_before |-> loaded.processed_games,
                 seasons |-> seasons, before |-> post_cache_file,
                 names_before |-> EmptyMap]} :
        IF new_games # {}
        THEN \* pbp = pbp_all[...]; main ends here
             /\ post_last_run' = run
             /\ UNCHANGED post_cache_file
        ELSE \* pbp = pd.DataFrame(): the name maps are empty plus the persisted ones
             IF new_games # {}
             THEN \E done \in {post_process_new_games({}, new_games, loaded.opportunities,
                                                      loaded.legacydrive_rows,
                                                      EmptyMap, EmptyMap)} :
                  /\ post_cache_file' = save_legacydrive_cache(
                                            done.opportunities,
                                            update(loaded.processed_games, new_games),
                                            advance_last_season(seasons,
                                                loaded.last_season_processed),
                                            done.legacydrive_rows, now)
                  /\ post_last_run' = [run EXCEPT !.called = TRUE, !.saved = TRUE]
             ELSE /\ post_last_run' = run
                  /\ UNCHANGED post_cache_file

PostGame1Cache ==
    Let(post_process_new_games(PlaysOf({1}), {1}, <<>>, <<>>, EmptyMap, EmptyMap),
        LAMBDA done :
          [exists |-> TRUE, opportunities |-> done.opportunities,
           processed_games |-> {1}, last_season_processed |-> 2024,
           legacydrive_rows |-> done.legacydrive_rows, last_updated |-> 0])

InitPostCaches == {AbsentCache, EmptyCache(2024), PostGame1Cache}

PostInit ==
    /\ published = {} /\ now = 1
    /\ cache_file = AbsentCache /\ name_map_file = EmptyMap /\ cache0 = AbsentCache
    /\ last_run = NoRun /\ merged_count = [g \in GameIds |-> 0]
    /\ post_cache_file \in InitPostCaches
    /\ post_last_run = NoRun
    /\ FnIdle

PostRun ==
    /\ post_main
    /\ UNCHANGED <<published, now, cache_file, name_map_file, cache0, last_run,
                   merged_count, arg, ret>>

PostNext ==
    \/ \E g \in GameIds : Publish(g)
    \/ Tick
    \/ PostRun

SpecPost == PostInit /\ [][PostNext]_vars

-----------------------------------------------------------------------------
(* seasons_to_load on its own *)

SeasonsInit ==
    /\ PipelineIdle /\ PostIdle
    /\ arg \in [last : (CURRENT_SEASON - MaxSeasonSpan) .. (CURRENT_SEASON + 2),
                cur : (CURRENT_SEASON - 1) .. (CURRENT_SEASON + 1),
                done : {FALSE}]
    /\ ret = [unified |-> <<>>, post |-> <<>>]

CallSeasonsToLoad ==
    /\ ~arg.done
    /\ ret' = [unified |-> seasons_to_load(arg.last, arg.cur),
               post |-> post_seasons_to_load(arg.last, arg.cur)]
    /\ arg' = [arg EXCEPT !.done = TRUE]
    /\ UNCHANGED <<published, now, cache_file, name_map_file, cache0, last_run,
                   merged_count, post_cache_file, post_last_run>>

SeasonsNext == CallSeasonsToLoad

SpecSeasons == SeasonsInit /\ [][SeasonsNext]_vars

-----------------------------------------------------------------------------
(* Properties of the pipeline (specification Spec) *)

RowsOfGame(rows, g) == {i \in DOMAIN rows : rows[i].game_id = g}

\* C1: process_new_games is only given game ids outside processed_games; no
\* game is merged by more than one run, and the ledger never holds more rows
\* of a game than one pass over that game yields.
C1_NewGamesProcessedOnce ==
    /\ last_run.called => last_run.new_games \cap last_run.processed_before = {}
    /\ \A g \in GameIds : merged_count[g] <= 1
    /\ \A g \in GameIds :
          Cardinality(RowsOfGame(cache_file.legacydrive_rows, g))
              <= Len(Alone({g}).legacydrive_rows)

\* A catch-up run fetched a game that was already processed, and merged others.
C1_Witness ==
    /\ last_run.saved
    /\ Len(last_run.seasons) > 1
    /\ last_run.all_games \cap last_run.processed_before # {}
    /\ \E g \in last_run.new_games : Alone({g}).legacydrive_rows # <<>>

WellFormed(file) ==
    \A i \in DOMAIN file.opportunities :
        /\ file.opportunities[i] # NonDict
        /\ file.opportunities[i].season_type # NoKey

\* C2: a run that merged new games only appended: the lists of a well-formed
\* cache are prefixes of the lists the run saved.
C2_RunOnlyAppends ==
    last_run.saved /\ WellFormed(last_run.before) =>
        /\ IsPrefix(last_run.before.opportunities, cache_file.opportunities)
        /\ IsPrefix(last_run.before.legacydrive_rows, cache_file.legacydrive_rows)

\* A run extended a cache that already held an Opportunity.
C2_Witness ==
    /\ last_run.saved
    /\ WellFormed(last_run.before)
    /\ last_run.before.opportunities # <<>>
    /\ Len(cache_file.opportunities) > Len(last_run.before.opportunities)
    /\ Len(cache_file.legacydrive_rows) > Len(last_run.before.legacydrive_rows)

\* The ledger of a cache file without its timestamp.
Ledger(file) == [file EXCEPT !.last_updated = 0]

\* C3: a run that finds no game id outside processed_games leaves the
\* persisted ledger as the run before it left it.
C3_NoNewGamesNoChange ==
    last_run.ran /\ last_run.new_games = {} =>
        Ledger(cache_file) = Ledger(last_run.before)

\* A second run right after one that saved, over the same games.
C3_Witness ==
    /\ last_run.ran /\ ~last_run.saved
    /\ last_run.new_games = {}
    /\ last_run.all_games # {}
    /\ last_run.before.exists /\ last_run.before.last_updated >= 1
    /\ last_run.before.opportunities # <<>>

\* C6: the last_season_processed a run leaves is at least the one it loaded.
C6_LastSeasonMonotone ==
    last_run.ran =>
        /\ load_legacydrive_cache(cache_file).last_season_processed
               >= load_legacydrive_cache(last_run.before).last_season_processed
        /\ last_run.saved =>
               cache_file.last_season_processed
                   >= load_legacydrive_cache(last_run.before).last_season_processed

\* A steady-state run saved from a loaded season at or above the current one.
C6_Witness ==
    /\ last_run.saved
    /\ load_legacydrive_cache(last_run.before).last_season_processed >= CURRENT_SEASON
    /\ last_run.new_games # {}

\* C7: after a run that merged new games, last_season_processed is
\* CURRENT_SEASON - 1 when more than one season was loaded and unchanged when
\* only the current season was; a run that merged nothing leaves it unchanged.
C7_AdvanceRule ==
    /\ last_run.saved /\ Len(last_run.seasons) > 1 =>
           cache_file.last_season_processed = CURRENT_SEASON - 1
    /\ last_run.saved /\ last_run.seasons = <<CURRENT_SEASON>> =>
           cache_file.last_season_processed
               = load_legacydrive_cache(last_run.before).last_season_processed
    /\ last_run.ran /\ ~last_run.saved =>
           cache_file.last_season_processed = last_run.before.last_season_processed

\* A steady-state run merged new games into a cache of the season before.
C7_Witness ==
    /\ last_run.saved
    /\ last_run.seasons = <<CURRENT_SEASON>>
    /\ last_run.before.exists
    /\ last_run.before.last_season_processed = CURRENT_SEASON - 1
    /\ last_run.before.last_updated >= 1

StartsBelowCurrent == ~cache0.exists \/ cache0.last_season_processed < CURRENT_SEASON

\* C8: from no cache, or a cache below the current season, the persisted
\* last_season_processed stays below the current season.
C8_CurrentSeasonNeverDone ==
    StartsBelowCurrent =>
        /\ cache_file.last_season_processed < CURRENT_SEASON
        /\ load_legacydrive_cache(cache_file).last_season_processed < CURRENT_SEASON

\* From no cache: a catch-up run that reached the current season and saved,
\* then a second saving run.
C8_Witness ==
    /\ ~cache0.exists
    /\ last_run.saved
    /\ last_run.before.exists
    /\ \E g \in cache_file.processed_games : GameInfo(g).season = CURRENT_SEASON

\* C10: from an absent cache, the persisted lists have one length and the
\* i-th row has the result and the season type of the i-th Opportunity.
C10_RowsMatchOpportunities ==
    ~cache0.exists =>
        /\ Len(cache_file.opportunities) = Len(cache_file.legacydrive_rows)
        /\ \A i \in DOMAIN cache_file.opportunities :
              /\ cache_file.opportunities[i] # NonDict
              /\ cache_file.legacydrive_rows[i].result = cache_file.opportunities[i].result
              /\ cache_file.legacydrive_rows[i].season_type
                     = cache_file.opportunities[i].season_type

\* From no cache: two saving runs, one over a game with a suppressed late
\* loss, and a run that an exception ended.
C10_Witness ==
    /\ ~cache0.exists
    /\ last_run.raised
    /\ 3 \in cache_file.processed_games
    /\ Len(cache_file.opportunities) >= 3
    /\ \E i \in DOMAIN cache_file.opportunities :
          cache_file.opportunities[i].season_type = "POST"

\* C25: one bad drive never aborts a run: a call of process_new_games on
\* candidates with missing data (no end-of-drive score, no start score
\* differential on an OT drive) raises no error; each such candidate yields a
\* complete Opportunity and row or nothing, and the others are classified.
C25_BadDriveIsAbsorbed ==
    last_run.called =>
        /\ ~last_run.raised
        /\ last_run.new_games \subseteq cache_file.processed_games

-----------------------------------------------------------------------------
(* Properties of the merge protocol (specification SpecMerge) *)

\* What the merge before the latest one appended to a list.
Appended(list, list_before) == SubSeq(list, Len(list_before) + 1, Len(list))

\* C4 as claimed: merging the same new game ids a second time leaves the
\* ledger (processed_games, Opportunities, rows) as the first merge left it.
C4_SecondMergeChangesNothing ==
    arg.repeated =>
        /\ ret.processed_games = arg.before.processed_games
        /\ ret.opportunities = arg.before.opportunities
        /\ ret.legacydrive_rows = arg.before.legacydrive_rows

\* C4 as amended: merging the same new game ids a second time leaves
\* processed_games as it was and appends to both lists, once more, what the
\* first merge appended.
C4_SecondMergeAppendsAgain ==
    arg.repeated =>
        /\ ret.processed_games = arg.before.processed_games
        /\ ret.opportunities = arg.before.opportunities
               \o Appended(arg.before.opportunities, arg.before2.opportunities)
        /\ ret.legacydrive_rows = arg.before.legacydrive_rows
               \o Appended(arg.before.legacydrive_rows, arg.before2.legacydrive_rows)

\* A third merge repeated the second one and duplicated its entries.
C4_Witness ==
    /\ arg.repeated /\ ~ret.raised
    /\ arg.before2.opportunities # <<>>
    /\ Len(ret.legacydrive_rows) > Len(arg.before.legacydrive_rows)
    /\ Len(ret.opportunities) > Len(arg.before.opportunities)

-----------------------------------------------------------------------------
(* Properties of the postseason main (specification SpecPost) *)

\* C5: a run that is served a game id outside processed_games calls
\* process_new_games, adds the new ids to processed_games and saves the cache.
C5_NewGamesAreProcessed ==
    post_last_run.ran /\ post_last_run.new_games # {} =>
        /\ post_last_run.called
        /\ post_last_run.saved
        /\ post_last_run.new_games \subseteq post_cache_file.processed_games

-----------------------------------------------------------------------------
(* Properties of seasons_to_load (specification SpecSeasons) *)

SeasonsAsSpecified(seasons, last, cur) ==
    IF last < cur - 1
    THEN /\ Len(seasons) = cur - last + 1
         /\ seasons[1] = last
         /\ seasons[Len(seasons)] = cur
         /\ \A i \in 1 .. Len(seasons) - 1 : seasons[i + 1] = seasons[i] + 1
    ELSE seasons = <<cur>>

\* C9: seasons_to_load returns the ascending range from lastProcessed to
\* currentSeason, both included, when lastProcessed < currentSeason - 1, and
\* the current season alone otherwise; so do both scripts' copies.
C9_SeasonsToLoad ==
    arg.done =>
        /\ SeasonsAsSpecified(ret.unified, arg.last, arg.cur)
        /\ SeasonsAsSpecified(ret.post, arg.last, arg.cur)

\* The shortest catch-up: two seasons behind, three seasons loaded.
C9_Witness ==
    /\ arg.done
    /\ arg.last = arg.cur - 2
    /\ ret.unified = <<arg.last, arg.last + 1, arg.cur>>

-----------------------------------------------------------------------------
(* process_new_games on the plays of one drive *)

\* The drive: KC has the ball against BUF in game 3 of the catalogue, replayed
\* in another season.  It starts with `clock` seconds left in the quarter and
\* KC at `score` against 20, and ends by `scoring`.
DriveSeasons == {2009, 2010, 2011, 2012, 2015}
DriveSeasonTypes == {"REG", "POST"}
DriveClocks == {-1, 0, 30, 31, 150, 180, 181}
DriveScores == {11, 12, 14, 19, 20, 21}
DriveScorings == {"none", "fg", "td", "td2", "def_td"}
DrivePeriods == {"Q4", "OT", "Q4+OT"}

Defense == [team |-> "BUF", score |-> 20]

DriveInputs ==
    [season : DriveSeasons, season_type : DriveSeasonTypes, clock : DriveClocks,
     score : DriveScores, scoring : DriveScorings, period : DrivePeriods]

\* The scores after the drive.
EndTeamScore(d) ==
    d.score + (CASE d.scoring = "fg" -> 3 [] d.scoring = "td" -> 6
                 [] d.scoring = "td2" -> 8 [] OTHER -> 0)
EndOppScore(d) == Defense.score + (IF d.scoring = "def_td" THEN 6 ELSE 0)

DrivePlays(d) ==
    LET qtr == IF d.period = "OT" THEN 5 ELSE 4
        late == IF d.clock > 0 THEN d.clock - 1 ELSE d.clock
        at6 == d.score + 6
        first == Pass(Pl(3, qtr, 10, 100, d.clock, "KC", d.score, Defense.score,
                         d.score, Defense.score), "00-001", "A.Able")
        quiet == Pl(3, qtr, 10, 101, late, "KC", d.score, Defense.score,
                    EndTeamScore(d), EndOppScore(d))
        scored ==
            CASE d.scoring = "fg" -> {Fg(quiet, "made")}
              [] d.scoring = "td" -> {Td(quiet)}
              [] d.scoring = "td2" ->
                   {Td([quiet EXCEPT !.posteam_score_post = at6]),
                    Pl(3, qtr, 10, 102, late, "KC", at6, Defense.score,
                       EndTeamScore(d), EndOppScore(d))}
              [] d.scoring = "def_td" ->
                   {[quiet EXCEPT !.touchdown = 1, !.td_team = Defense.team]}
              [] OTHER -> {quiet}
        overtime ==
            IF d.period = "Q4+OT"
            THEN {Pl(3, 5, 10, 200, 900, "KC", EndTeamScore(d), EndOppScore(d),
                     EndTeamScore(d), EndOppScore(d)),
                  Pl(3, 5, 10, 201, 800, "KC", EndTeamScore(d), EndOppScore(d),
                     EndTeamScore(d), EndOppScore(d))}
            ELSE {}
    IN  {[p EXCEPT !.season = d.season, !.season_type = d.season_type] :
            p \in {first} \cup scored \cup overtime}

DriveInit ==
    /\ PipelineIdle /\ PostIdle
    /\ arg \in [drive : DriveInputs, done : {FALSE}]
    /\ ret = [q4 |-> <<>>, opportunities |-> <<>>, legacydrive_rows |-> <<>>]

CallProcessNewGames ==
    /\ ~arg.done
    /\ \E pbp \in {DrivePlays(arg.drive)} :
       \E out \in {process_new_games(pbp, {3}, <<>>, <<>>,
                                     name_map_of(pbp, "passer_id", "passer"),
                                     name_map_of(pbp, "qb_id", "qb"))} :
          ret' = [q4 |-> q4_opps(pbp), opportunities |-> out.opportunities,
                  legacydrive_rows |-> out.legacydrive_rows]
    /\ arg' = [arg EXCEPT !.done = TRUE]
    /\ UNCHANGED <<published, now, cache_file, name_map_file, cache0, last_run,
                   merged_count, post_cache_file, post_last_run>>

DriveNext == CallProcessNewGames

SpecDrive == DriveInit /\ [][DriveNext]_vars

-----------------------------------------------------------------------------
(* Properties of process_new_games on one drive (specification SpecDrive) *)

InWindow(d) ==
    /\ d.clock >= 0 /\ d.clock <= 180
    /\ d.score - Defense.score >= -8 /\ d.score - Defense.score <= -1

\* C11: the plays of one (game id, drive number) pair yield at most one
\* Opportunity, also when the drive number occurs in quarter 4 and in overtime.
C11_OneOpportunityPerDrive ==
    arg.done => Len(ret.opportunities) <= 1

\* C12: a Q4 drive is a candidate iff its start row has between 0 and 180
\* seconds left in the quarter and a score difference between -8 and -1.
C12_Q4Filter ==
    arg.done /\ arg.drive.period = "Q4" =>
        /\ InWindow(arg.drive) => Len(ret.q4) = 1
        /\ ~InWindow(arg.drive) => ret.q4 = <<>>

\* Three minutes left and trailing by eight: both ends of the window at once.
C12_Witness ==
    /\ arg.done /\ arg.drive.period = "Q4"
    /\ arg.drive.clock = 180 /\ arg.drive.score = Defense.score - 8
    /\ Len(ret.q4) = 1
    /\ ret.q4[1].quarter_seconds_remaining = 180 /\ ret.q4[1].score_diff = -8

\* C13: a Q4 candidate is a Win, "Q4: drive ended tied or leading (Success)",
\* iff the offense's end score is at least the defense's, and otherwise a Loss,
\* "Q4: drive ended still trailing (Failure)".
C13_Q4Outcome ==
    arg.done /\ arg.drive.period = "Q4" =>
        \A i \in DOMAIN ret.legacydrive_rows :
            LET row == ret.legacydrive_rows[i]
            IN  /\ row.end_team_score = EndTeamScore(arg.drive)
                /\ row.end_opp_score = EndOppScore(arg.drive)
                /\ ret.opportunities[i].result = row.result
                /\ IF EndTeamScore(arg.drive) >= EndOppScore(arg.drive)
                   THEN /\ row.result = "W"
                        /\ row.reason = "Q4: drive ended tied or leading (Success)"
                   ELSE /\ row.result = "L"
                        /\ row.reason = "Q4: drive ended still trailing (Failure)"

\* The drive that starts at 2:30 trailing by six and ends 20-20.
C13_Witness ==
    /\ arg.done /\ arg.drive.period = "Q4"
    /\ arg.drive.clock = 150 /\ arg.drive.score = 14 /\ arg.drive.scoring = "td"
    /\ Len(ret.legacydrive_rows) = 1
    /\ ret.legacydrive_rows[1].end_team_score = 20
    /\ ret.legacydrive_rows[1].end_opp_score = 20
    /\ ret.legacydrive_rows[1].result = "W"

PreChangeEra(d) ==
    \/ d.season_type = "POST" /\ d.season < 2010
    \/ d.season_type = "REG" /\ d.season < 2012

\* C15: the first overtime drive of a game outside the pre-change eras is a
\* Win iff the starting offense scored a touchdown; a field goal only, or no
\* score, is a Loss, "OT (1st drive): no TD (FG or no score) (Failure)",
\* whatever the end scores are.
C15_FirstOvertimeDrive ==
    arg.done /\ arg.drive.period = "OT" /\ ~PreChangeEra(arg.drive) =>
        /\ Len(ret.legacydrive_rows) = 1
        /\ Len(ret.opportunities) = 1
        /\ ret.opportunities[1].result = ret.legacydrive_rows[1].result
        /\ IF arg.drive.scoring \in {"td", "td2"}
           THEN ret.legacydrive_rows[1].result = "W"
           ELSE /\ ret.legacydrive_rows[1].result = "L"
                /\ ret.legacydrive_rows[1].reason =
                       "OT (1st drive): no TD (FG or no score) (Failure)"

\* Season 2015, a field goal only, the offense ends ahead 23-20.
C15_Witness ==
    /\ arg.done /\ arg.drive.period = "OT"
    /\ arg.drive.season = 2015 /\ arg.drive.scoring = "fg" /\ arg.drive.score = 20
    /\ Len(ret.legacydrive_rows) = 1
    /\ ret.legacydrive_rows[1].end_team_score > ret.legacydrive_rows[1].end_opp_score
    /\ ret.legacydrive_rows[1].result = "L"

\* C17: a Q4 candidate that starts with 30 seconds or less and ends in a Loss
\* yields neither an Opportunity nor a row; at 31 seconds, or with a Win, it is
\* kept, and an overtime candidate is kept whatever its clock and outcome.
C17_LateLossSuppression ==
    arg.done =>
        /\ arg.drive.period = "Q4" /\ InWindow(arg.drive) =>
              IF /\ arg.drive.clock <= 30
                 /\ EndTeamScore(arg.drive) < EndOppScore(arg.drive)
              THEN ret.opportunities = <<>> /\ ret.legacydrive_rows = <<>>
              ELSE Len(ret.opportunities) = 1 /\ Len(ret.legacydrive_rows) = 1
        /\ arg.drive.period = "OT" =>
              Len(ret.opportunities) = 1 /\ Len(ret.legacydrive_rows) = 1

\* A candidate at exactly 30 seconds that fails is dropped.
C17_Witness ==
    /\ arg.done /\ arg.drive.period = "Q4"
    /\ arg.drive.clock = 30 /\ arg.drive.score = 14 /\ arg.drive.scoring = "none"
    /\ Len(ret.q4) = 1
    /\ ret.opportunities = <<>> /\ ret.legacydrive_rows = <<>>

-----------------------------------------------------------------------------
(* classify_ot_result on its own *)

OtSeasons == {2009, 2010, 2011, 2012, 2015, NA}
OtScores == {20, 23, 26}

OtInputs ==
    [season_type : {"POST", "REG"}, season_val : OtSeasons, ot_rank : 1 .. MaxOtRank,
     td_scored : BOOLEAN, fg_scored : BOOLEAN,
     end_team_score : OtScores, end_opp_score : OtScores]

OtInit ==
    /\ PipelineIdle /\ PostIdle
    /\ arg \in [ot : OtInputs, done : {FALSE}]
    /\ ret = <<"", "">>

CallClassifyOtResult ==
    /\ ~arg.done
    /\ ret' = classify_ot_result(arg.ot.season_type, arg.ot.season_val, arg.ot.ot_rank,
                                 arg.ot.td_scored, arg.ot.fg_scored,
                                 arg.ot.end_team_score, arg.ot.end_opp_score)
    /\ arg' = [arg EXCEPT !.done = TRUE]
    /\ UNCHANGED <<published, now, cache_file, name_map_file, cache0, last_run,
                   merged_count, post_cache_file, post_last_run>>

OtNext == CallClassifyOtResult

SpecOt == OtInit /\ [][OtNext]_vars

-----------------------------------------------------------------------------
(* Properties of classify_ot_result (specification SpecOt) *)

OtPreChange(o) ==
    /\ o.season_val # NA
    /\ \/ o.season_type = "POST" /\ o.season_val < 2010
       \/ o.season_type = "REG" /\ o.season_val < 2012

FgTdReasons ==
    {"OT (POST pre-2010): FG/TD scored on drive (Success)",
     "OT (POST pre-2010): no FG/TD scored on drive (Failure)",
     "OT (REG pre-2012): FG/TD scored on drive (Success)",
     "OT (REG pre-2012): no FG/TD scored on drive (Failure)"}

\* C14: an overtime drive is judged by the FG/TD rule (Win iff a touchdown or
\* a made field goal, whatever the rank and the end scores) exactly when the
\* season type is POST and the season is before 2010, or REG and before 2012.
C14_OvertimeEraCutoff ==
    arg.done =>
        IF OtPreChange(arg.ot)
        THEN /\ ret[2] \in FgTdReasons
             /\ ret[1] = "W" <=> (arg.ot.td_scored \/ arg.ot.fg_scored)
        ELSE /\ ret[2] \notin FgTdReasons
             /\ ret[1] = "W" <=>
                    IF arg.ot.ot_rank = 1 THEN arg.ot.td_scored
                    ELSE arg.ot.end_team_score > arg.ot.end_opp_score

\* Postseason 2010, first drive, a field goal: a Win under the FG/TD rule of
\* the regular season of 2010, a Loss here.
C14_Witness ==
    /\ arg.done
    /\ arg.ot.season_type = "POST" /\ arg.ot.season_val = 2010
    /\ arg.ot.ot_rank = 1 /\ arg.ot.fg_scored /\ ~arg.ot.td_scored
    /\ ret[1] = "L"

\* C16: an overtime drive of rank > 1 outside the pre-change eras is a Win iff
\* the offense's end score strictly exceeds the defense's, whether or not a
\* touchdown or field goal was scored on it.
C16_LaterOvertimeDrive ==
    arg.done /\ arg.ot.ot_rank > 1 /\ ~OtPreChange(arg.ot) =>
        /\ ret[1] \in {"W", "L"}
        /\ ret[1] = "W" <=> arg.ot.end_team_score > arg.ot.end_opp_score

\* A second drive that scores a touchdown and only ties is a Loss.
C16_Witness ==
    /\ arg.done /\ arg.ot.ot_rank = 2 /\ arg.ot.season_val = 2015
    /\ arg.ot.td_scored
    /\ arg.ot.end_team_score = arg.ot.end_opp_score
    /\ ret = <<"L", "OT (drive 2): ended not leading (Failure)">>

\* The result of the script of the drive's season type on the same drive.
ScriptOtResult(o) ==
    IF o.season_type = "POST"
    THEN postseason_ot_rule(o.season_val, o.ot_rank, o.td_scored, o.fg_scored,
                            o.end_team_score, o.end_opp_score)[1]
    ELSE regular_ot_rule(o.season_val, o.ot_rank, o.td_scored, o.fg_scored,
                         o.end_team_score, o.end_opp_score)[1]

\* C30: classify_ot_result with season type POST returns the W/L of the OT
\* rule of the postseason script, and with REG the W/L of the OT rule of the
\* regular-season script, for every season, rank, td/fg flags and end scores.
C30_AgreesWithScripts ==
    arg.done => ret[1] = ScriptOtResult(arg.ot)

\* Season 2011, first drive, a field goal only: the postseason script and the
\* regular-season script disagree, and the classifier follows each.
C30_Witness ==
    /\ arg.done
    /\ arg.ot.season_val = 2011 /\ arg.ot.ot_rank = 1
    /\ arg.ot.fg_scored /\ ~arg.ot.td_scored
    /\ arg.ot.season_type = "POST"
    /\ ret[1] = "L"
    /\ regular_ot_rule(arg.ot.season_val, arg.ot.ot_rank, arg.ot.td_scored,
                       arg.ot.fg_scored, arg.ot.end_team_score,
                       arg.ot.end_opp_score)[1] = "W"

-----------------------------------------------------------------------------
(* get_qb_for_drive on its own *)

\* What one play says about the quarterback: the qb_id column, and whether it
\* is a pass attempt and by whom.
QbPlayKinds ==
    [qb_id : {NaS, "00-001", "00-002"}, pass_attempt : {1},
     passer_id : {NaS, "00-001", "00-002"}]
    \cup [qb_id : {NaS, "00-001", "00-002"}, pass_attempt : {0},
          passer_id : {NaS, "00-002"}]

QbDrives == UNION {[1 .. n -> QbPlayKinds] : n \in 1 .. MaxDrivePlays}

\* The start row's posteam: a team, missing, or no such field.
QbPosteams == {"KC", NaS, NoKey}

\* Player 00-001 is known to both maps, under different names; 00-002 to none.
QbNameMap == [id \in {"00-001"} |-> "A.Able"]
PasserNameMap == [id \in {"00-001"} |-> "A.Able Sr"]

\* The drive as a table: play i of the drive has play_id i.
QbDriveAll(kinds) == {kinds[i] @@ [play_id |-> i] : i \in DOMAIN kinds}

QbInit ==
    /\ PipelineIdle /\ PostIdle
    /\ arg \in [drive : QbDrives, posteam : QbPosteams, done : {FALSE}]
    /\ ret = <<"", "">>

CallGetQbForDrive ==
    /\ ~arg.done
    /\ ret' = get_qb_for_drive(QbDriveAll(arg.drive), [posteam |-> arg.posteam],
                               QbNameMap, PasserNameMap)
    /\ arg' = [arg EXCEPT !.done = TRUE]
    /\ UNCHANGED <<published, now, cache_file, name_map_file, cache0, last_run,
                   merged_count, post_cache_file, post_last_run>>

QbNext == CallGetQbForDrive

SpecQb == QbInit /\ [][QbNext]_vars

-----------------------------------------------------------------------------
(* Properties of get_qb_for_drive (specification SpecQb) *)

QbIdsOf(d) == {d[i].qb_id : i \in DOMAIN d} \ {NaS}
PasserIdsOf(d) == {d[i].passer_id : i \in {j \in DOMAIN d : d[j].pass_attempt = 1}} \ {NaS}
QbCount(d, id) == Cardinality({i \in DOMAIN d : d[i].qb_id = id})
PassCount(d, id) ==
    Cardinality({i \in DOMAIN d : d[i].pass_attempt = 1 /\ d[i].passer_id = id})
NameIn(map, id) == IF id \in DOMAIN map THEN map[id] ELSE id

\* C18: get_qb_for_drive returns a non-empty (id, name) pair: the most frequent
\* qb_id of the drive if a play carries one; else the most frequent passer_id
\* of the pass attempts if there is one; else a placeholder whose name is the
\* id.  An id without an entry in its name map is its own name.
C18_QbPriorityChain ==
    arg.done =>
        /\ ret[1] # "" /\ ret[2] # ""
        /\ IF QbIdsOf(arg.drive) # {}
           THEN /\ ret[1] \in QbIdsOf(arg.drive)
                /\ \A id \in QbIdsOf(arg.drive) :
                       QbCount(arg.drive, id) <= QbCount(arg.drive, ret[1])
                /\ ret[2] = NameIn(QbNameMap, ret[1])
           ELSE IF PasserIdsOf(arg.drive) # {}
           THEN /\ ret[1] \in PasserIdsOf(arg.drive)
                /\ \A id \in PasserIdsOf(arg.drive) :
                       PassCount(arg.drive, id) <= PassCount(arg.drive, ret[1])
                /\ ret[2] = NameIn(PasserNameMap, ret[1])
           ELSE /\ ret[1] \in Placeholders
                /\ ret[2] = ret[1]

\* The qb_id column names 00-002 on one play while 00-001 threw twice: the
\* column wins, and 00-002 has no name but its id.
C18_Witness ==
    /\ arg.done
    /\ QbIdsOf(arg.drive) = {"00-002"}
    /\ PassCount(arg.drive, "00-001") = 2
    /\ ret = <<"00-002", "00-002">>

\* C19: without a qb_id and a passer the id is TEAM_<offense team> of the
\* start row, and TEAM_UNK when that team is absent or null.
C19_PlaceholderId ==
    arg.done /\ QbIdsOf(arg.drive) = {} /\ PasserIdsOf(arg.drive) = {} =>
        ret[1] = IF arg.posteam \in {NaS, NoKey} THEN "TEAM_UNK"
                 ELSE "TEAM_" \o arg.posteam

\* The play of the drive on which the id occurs first in the qb_id column.
FirstQbPlay(d, id) == CHOOSE i \in DOMAIN d : d[i].qb_id = id /\ \A j \in 1 .. i - 1 : d[j].qb_id # id

\* C26: when several qb_id values are equally frequent on a drive,
\* get_qb_for_drive returns the one that occurs first in the drive's plays,
\* whatever the order of the id values.
C26_FirstOccurrenceTieBreak ==
    arg.done /\ QbIdsOf(arg.drive) # {} =>
        \A id \in QbIdsOf(arg.drive) :
            QbCount(arg.drive, id) = QbCount(arg.drive, ret[1]) =>
                FirstQbPlay(arg.drive, ret[1]) <= FirstQbPlay(arg.drive, id)

-----------------------------------------------------------------------------
(* build_leaderboard_records on its own *)

\* The Opportunities a cache can hold: two players and a placeholder; "T" is a
\* result the pipeline never writes but a cache file may carry.
BoardOpportunities ==
    [qb_id : {"00-001", "00-002", "TEAM_KC"}, result : {"W", "L", "T"},
     season_type : {"REG"}]

BoardInit ==
    /\ PipelineIdle /\ PostIdle
    /\ arg \in [opportunities : UNION {[1 .. n -> BoardOpportunities] : n \in 0 .. MaxOpps},
                done : {FALSE}]
    /\ ret = <<>>

CallBuildLeaderboardRecords ==
    /\ ~arg.done
    /\ ret' = build_leaderboard_records(arg.opportunities, PasserNameMap)
    /\ arg' = [arg EXCEPT !.done = TRUE]
    /\ UNCHANGED <<published, now, cache_file, name_map_file, cache0, last_run,
                   merged_count, post_cache_file, post_last_run>>

BoardNext == CallBuildLeaderboardRecords

SpecBoard == BoardInit /\ [][BoardNext]_vars

-----------------------------------------------------------------------------
(* Properties of build_leaderboard_records (specification SpecBoard) *)

Decisions(opps, id, result) ==
    Cardinality({i \in DOMAIN opps : opps[i].qb_id = id /\ opps[i].result = result})

\* C20: every record of the leaderboard has wins and losses equal to the
\* player's numbers of W and L Opportunities, at least one decision, a
\* win_pct between 0 and 100, and an id that is no TEAM_ placeholder.
C20_LeaderboardRecords ==
    arg.done =>
        \A i \in DOMAIN ret :
            /\ ret[i].wins = Decisions(arg.opportunities, ret[i].qb_id, "W")
            /\ ret[i].losses = Decisions(arg.opportunities, ret[i].qb_id, "L")
            /\ ret[i].wins + ret[i].losses > 0
            /\ ret[i].win_pct >= 0 /\ ret[i].win_pct <= 1000
            /\ ret[i].qb_id \notin {"TEAM_KC", "TEAM_UNK", "TEAM_nan"}

\* A placeholder's win next to a player's win and loss: one record, 50.0 %.
C20_Witness ==
    /\ arg.done
    /\ \E i \in DOMAIN arg.opportunities : arg.opportunities[i].qb_id = "TEAM_KC"
    /\ Decisions(arg.opportunities, "00-001", "W") = 1
    /\ Decisions(arg.opportunities, "00-001", "L") = 1
    /\ Len(ret) = 1
    /\ ret[1].qb_id = "00-001" /\ ret[1].win_pct = 500

\* C21: the leaderboard is ordered by wins descending, then losses ascending,
\* then win_pct descending: of two adjacent records the first has more wins,
\* or as many wins and no more losses.
C21_LeaderboardOrder ==
    arg.done =>
        \A i \in 1 .. Len(ret) - 1 :
            \/ ret[i].wins > ret[i + 1].wins
            \/ /\ ret[i].wins = ret[i + 1].wins
               /\ ret[i].losses < ret[i + 1].losses
            \/ /\ ret[i].wins = ret[i + 1].wins
               /\ ret[i].losses = ret[i + 1].losses
               /\ ret[i].win_pct >= ret[i + 1].win_pct

\* Two players with one win each: the one without a loss comes first, against
\* the order of the ids.
C21_Witness ==
    /\ arg.done
    /\ Len(ret) = 2
    /\ ret[1].qb_id = "00-002" /\ ret[2].qb_id = "00-001"
    /\ ret[1].wins = 1 /\ ret[2].wins = 1
    /\ ret[1].losses = 0 /\ ret[2].losses = 1

\* C22: a player whose id is not in the name map appears on the leaderboard
\* under the raw id, never under a null name.
C22_UnresolvedNameIsId ==
    arg.done =>
        \A i \in DOMAIN ret :
            /\ ret[i].qb_name # NaS
            /\ ret[i].qb_id \notin DOMAIN PasserNameMap => ret[i].qb_name = ret[i].qb_id

-----------------------------------------------------------------------------
(* load_legacydrive_cache on a damaged file *)

\* What can be wrong with the text of the cache file.
CacheDamages ==
    {"none", "invalid json", "top-level array", "top-level null",
     "season is text", "season is a string of digits"}

FreshStart ==
    [opportunities |-> <<>>, processed_games |-> {},
     last_season_processed |-> DEFAULT_LAST_SEASON, legacydrive_rows |-> <<>>]

\* load_legacydrive_cache on a file whose text is damaged: the exception that
\* leaves the function ("" for none) and the tuple returned.
load_damaged_cache(file, damage) ==
    IF ~file.exists THEN [raised |-> "", loaded |-> load_legacydrive_cache(file)]
    ELSE CASE damage = "invalid json" ->
                \* json.load(f) raises and nothing catches it
                [raised |-> "JSONDecodeError", loaded |-> FreshStart]
           [] damage = "top-level array" ->
                \* a non-empty list is truthy and has no get()
                [raised |-> "AttributeError", loaded |-> FreshStart]
           [] damage = "top-level null" ->
                \* json.load(f) or {}: every key reads as its default
                [raised |-> "", loaded |-> FreshStart]
           [] damage = "season is text" ->
                \* int("last year")
                [raised |-> "ValueError", loaded |-> FreshStart]
           [] OTHER ->
                \* int("2024") is 2024
                [raised |-> "", loaded |-> load_legacydrive_cache(file)]

LoadInit ==
    /\ PipelineIdle /\ PostIdle
    /\ arg \in [file : InitCaches, damage : CacheDamages, done : {FALSE}]
    /\ ret = [raised |-> "", loaded |-> FreshStart]

CallLoadLegacydriveCache ==
    /\ ~arg.done
    /\ ret' = load_damaged_cache(arg.file, arg.damage)
    /\ arg' = [arg EXCEPT !.done = TRUE]
    /\ UNCHANGED <<published, now, cache_file, name_map_file, cache0, last_run,
                   merged_count, post_cache_file, post_last_run>>

LoadNext == CallLoadLegacydriveCache

SpecLoad == LoadInit /\ [][LoadNext]_vars

\* C23: a cache file that is unreadable or violates the schema (invalid JSON,
\* a top-level value that is no object, a last_season_processed that is no
\* integer) is read like an absent file: no error, and the fresh-start tuple.
C23_DamagedCacheIsFreshStart ==
    arg.done /\ arg.file.exists
             /\ arg.damage \in {"invalid json", "top-level array", "top-level null",
                                "season is text"} =>
        /\ ret.raised = ""
        /\ ret.loaded = FreshStart

-----------------------------------------------------------------------------
(* process_new_games on a drive with missing post-play scores *)

\* The post-play scores one play can carry: offense and defense, each missing
\* or one of two values.
PostScores == {NA, 14, 20} \X {NA, 17, 24}

EndDrives == UNION {[1 .. n -> PostScores] : n \in 1 .. MaxDrivePlays}

\* A Q4 drive of game 3: KC trails 14-17 with two minutes left; play i is the
\* i-th play in time and carries the post-play scores scores[i].
EndPlays(scores) ==
    {Pl(3, 4, 10, 100 + i, 120 - 10 * i, "KC", 14, 17, scores[i][1], scores[i][2]) :
        i \in DOMAIN scores}

EndInit ==
    /\ PipelineIdle /\ PostIdle
    /\ arg \in [scores : EndDrives, done : {FALSE}]
    /\ ret = [raised |-> FALSE, opportunities |-> <<>>, legacydrive_rows |-> <<>>]

CallProcessNewGamesOnScores ==
    /\ ~arg.done
    /\ \E pbp \in {EndPlays(arg.scores)} :
          ret' = process_new_games(pbp, {3}, <<>>, <<>>, EmptyMap, EmptyMap)
    /\ arg' = [arg EXCEPT !.done = TRUE]
    /\ UNCHANGED <<published, now, cache_file, name_map_file, cache0, last_run,
                   merged_count, post_cache_file, post_last_run>>

EndNext == CallProcessNewGamesOnScores

SpecEnd == EndInit /\ [][EndNext]_vars

\* The plays of the drive that carry both post-play scores.
PlaysWithBoth(scores) == {i \in DOMAIN scores : scores[i][1] # NA /\ scores[i][2] # NA}

\* C27: the end score pair of a drive is the pair of one play: of the last
\* play in time if it has both post-play scores, else of the latest play that
\* has both; the candidate is dropped iff no play has both.
C27_EndPairFromOnePlay ==
    arg.done =>
        IF PlaysWithBoth(arg.scores) = {}
        THEN ret.legacydrive_rows = <<>> /\ ret.opportunities = <<>>
        ELSE /\ Len(ret.legacydrive_rows) = 1
             /\ \E i \in PlaysWithBoth(arg.scores) :
                   /\ \A j \in PlaysWithBoth(arg.scores) : j <= i
                   /\ ret.legacydrive_rows[1].end_team_score = arg.scores[i][1]
                   /\ ret.legacydrive_rows[1].end_opp_score = arg.scores[i][2]

-----------------------------------------------------------------------------
(* process_new_games on the overtime drives of two games *)

\* The drive numbers of the overtime drives of game 4, in the order of play.
OtDriveNumbers == 21 .. 20 + MaxOtRank
OtDriveOrders ==
    UNION {{d \in [1 .. n -> OtDriveNumbers] : \A i, j \in 1 .. n : d[i] = d[j] => i = j} :
              n \in 0 .. MaxOtRank}

\* Game 4: its overtime drives in the order of play, drive i with the number
\* drives[i]; the first cut of them are played in quarter 5, the rest in
\* quarter 6.  q4 adds a qualifying Q4 drive.  Game 3 has `others` overtime
\* drives with the same drive numbers and smaller play ids.
RankInputs ==
    {a \in [drives : OtDriveOrders, cut : 0 .. MaxOtRank, others : 0 .. 2,
            q4 : BOOLEAN, done : {FALSE}] : a.cut <= Len(a.drives)}

RankPlays(a) ==
    LET side(i) == IF i % 2 = 1 THEN "BUF" ELSE "KC"
        mine == UNION {{Pl(4, IF i <= a.cut THEN 5 ELSE 6, a.drives[i], 300 + 10 * i,
                           900 - 100 * i, side(i), 20, 20, 20, 20),
                        Pl(4, IF i <= a.cut THEN 5 ELSE 6, a.drives[i], 301 + 10 * i,
                           850 - 100 * i, side(i), 20, 20, 20, 20)} :
                          i \in DOMAIN a.drives}
        other == {Pl(3, 5, 20 + j, 100 + 10 * j, 900 - 100 * j, side(j), 17, 17, 17, 17) :
                     j \in 1 .. a.others}
        fourth == IF a.q4 THEN {Pl(4, 4, 10, 200, 120, "KC", 17, 20, 20, 20)} ELSE {}
    IN  mine \cup other \cup fourth

RankInit ==
    /\ PipelineIdle /\ PostIdle
    /\ arg \in RankInputs
    /\ ret = [ot |-> <<>>, opportunities |-> <<>>, legacydrive_rows |-> <<>>]

CallProcessNewGamesOnOvertime ==
    /\ ~arg.done
    /\ \E pbp \in {RankPlays(arg)} :
       \E out \in {process_new_games(pbp, {3, 4}, <<>>, <<>>, EmptyMap, EmptyMap)} :
          ret' = [ot |-> ot_opps(pbp), opportunities |-> out.opportunities,
                  legacydrive_rows |-> out.legacydrive_rows]
    /\ arg' = [arg EXCEPT !.done = TRUE]
    /\ UNCHANGED <<published, now, cache_file, name_map_file, cache0, last_run,
                   merged_count, post_cache_file, post_last_run>>

RankNext == CallProcessNewGamesOnOvertime

SpecRank == RankInit /\ [][RankNext]_vars

\* The OT candidates of a game.
OtRowsOf(g) == {i \in DOMAIN ret.ot : ret.ot[i].game_id = g}

\* C28: within each game the OT drives of a run get the ranks 1..n, distinct
\* and contiguous, ascending in the (quarter, play index) of their start
\* rows; the rank of a drive depends neither on the other game nor on the
\* Q4 drives.
C28_OtRanksPerGame ==
    arg.done =>
        /\ \A g \in {3, 4} :
              /\ {ret.ot[i].ot_drive_rank : i \in OtRowsOf(g)} = 1 .. Cardinality(OtRowsOf(g))
              /\ \A i, j \in OtRowsOf(g) :
                    LexLess(<<ret.ot[i].qtr, ret.ot[i].play_id>>,
                            <<ret.ot[j].qtr, ret.ot[j].play_id>>)
                        <=> ret.ot[i].ot_drive_rank < ret.ot[j].ot_drive_rank
        /\ Cardinality(OtRowsOf(4)) = Len(arg.drives)
        /\ Cardinality(OtRowsOf(3)) = arg.others
        /\ \A k \in DOMAIN arg.drives :
              \E i \in OtRowsOf(4) : /\ ret.ot[i].drive = arg.drives[k]
                                     /\ ret.ot[i].ot_drive_rank = k
                                     /\ ret.ot[i].period = "OT"

\* Game 4 has three overtime drives whose numbers descend in the order of
\* play, over two quarters, next to a Q4 drive and two drives of game 3.
C28_Witness ==
    /\ arg.done
    /\ arg.drives = <<23, 22, 21>> /\ arg.cut = 2 /\ arg.others = 2 /\ arg.q4
    /\ \E i \in OtRowsOf(4) : ret.ot[i].drive = 21 /\ ret.ot[i].ot_drive_rank = 3
    /\ Len(ret.opportunities) = 6

-----------------------------------------------------------------------------
(* process_new_games in one call and in two *)

BatchGames == {1, 2, 3}

\* What a game of this section holds: one Q4 drive that succeeds or fails,
\* one or two overtime drives, or an overtime drive whose start row has no
\* scores.
BatchKinds == {"q4 win", "q4 loss", "ot", "ot twice", "ot no score"}

BatchPlaysOfGame(g, kind) ==
    CASE kind = "q4 win" ->
           { Pass(Pl(g, 4, 12, 200, 180, "NYG", 20, 21, 20, 21), "00-002", "B.Baker"),
             Fg(Pl(g, 4, 12, 201, 2, "NYG", 20, 21, 23, 21), "made") }
      [] kind = "q4 loss" ->
           { Pass(Pl(g, 4, 12, 200, 180, "NYG", 20, 21, 20, 21), "00-002", "B.Baker"),
             Pl(g, 4, 12, 201, 2, "NYG", 20, 21, 20, 21) }
      [] kind = "ot" ->
           { Td(Pass(Pl(g, 5, 30, 400, 600, "KC", 24, 24, 30, 24), "00-001", "A.Able")) }
      [] kind = "ot twice" ->
           { Fg(Pl(g, 5, 30, 400, 600, "KC", 24, 24, 27, 24), "made"),
             Td(Pass(Pl(g, 5, 31, 410, 300, "BUF", 24, 27, 30, 27), "00-002", "B.Baker")) }
      [] OTHER ->
           { Pass(Pl(g, 5, 25, 500, 600, "DAL", NA, NA, 10, 10), "00-003", "C.Cole") }

BatchPlays(kinds) == UNION {BatchPlaysOfGame(g, kinds[g]) : g \in BatchGames}

\* The kinds of the games, and the part of each game: in A, in B or in none.
BatchInputs ==
    [kinds : [BatchGames -> BatchKinds], part : [BatchGames -> {"A", "B", "-"}],
     done : {FALSE}]

\* process_new_games on A and then, on the same lists, on B; an exception of
\* the first call ends the sequence.
process_in_two(pbp, A, B, passer_name_map, qb_name_map) ==
    Let(process_new_games(pbp, A, <<>>, <<>>, passer_name_map, qb_name_map),
        LAMBDA first :
          IF first.raised THEN first
          ELSE process_new_games(pbp, B, first.opportunities, first.legacydrive_rows,
                                 passer_name_map, qb_name_map))

BatchInit ==
    /\ PipelineIdle /\ PostIdle
    /\ arg \in BatchInputs
    /\ ret = [two |-> [raised |-> FALSE, opportunities |-> <<>>, legacydrive_rows |-> <<>>],
              one |-> [raised |-> FALSE, opportunities |-> <<>>, legacydrive_rows |-> <<>>]]

CallProcessNewGamesTwice ==
    /\ ~arg.done
    /\ \E pbp \in {BatchPlays(arg.kinds)} :
       \E A \in {{g \in BatchGames : arg.part[g] = "A"}} :
       \E B \in {{g \in BatchGames : arg.part[g] = "B"}} :
       \E pmap \in {name_map_of(pbp, "passer_id", "passer")} :
       \E qmap \in {name_map_of(pbp, "qb_id", "qb")} :
          ret' = [two |-> process_in_two(pbp, A, B, pmap, qmap),
                  one |-> process_new_games(pbp, A \cup B, <<>>, <<>>, pmap, qmap)]
    /\ arg' = [arg EXCEPT !.done = TRUE]
    /\ UNCHANGED <<published, now, cache_file, name_map_file, cache0, last_run,
                   merged_count, post_cache_file, post_last_run>>

BatchNext == CallProcessNewGamesTwice

SpecBatch == BatchInit /\ [][BatchNext]_vars

\* How often each element occurs in a list.
Multiset(s) == [x \in Range(s) |-> Cardinality({i \in DOMAIN s : s[i] = x})]

\* C29: for disjoint game sets A and B, process_new_games on A and then on B
\* produces the same multiset of Opportunities and of rows as one call on
\* the union of A and B.
C29_IncrementalEqualsBatch ==
    arg.done =>
        /\ Multiset(ret.two.opportunities) = Multiset(ret.one.opportunities)
        /\ Multiset(ret.two.legacydrive_rows) = Multiset(ret.one.legacydrive_rows)

-----------------------------------------------------------------------------
(* main when a write can fail *)

CrashInit == Init

\* One run of main() in which the operating system may refuse a write.
RunUnderFault ==
    /\ \E fault \in Faults : main_under(fault)
    /\ UNCHANGED <<published, now, cache0, post_cache_file, post_last_run, arg, ret>>

CrashNext ==
    \/ \E g \in GameIds : Publish(g)
    \/ Tick
    \/ RunUnderFault

SpecCrash == CrashInit /\ [][CrashNext]_vars

\* C24: persistence is all-or-nothing: after a run of main that failed at any
\* step, the cache file and the name map file are both exactly as they were
\* before the run; none is rewritten alone and none is partially written.
C24_PersistenceAllOrNothing ==
    last_run.ran /\ last_run.failed # "" =>
        /\ cache_file = last_run.before
        /\ name_map_file = last_run.names_before

====
